---- MODULE Spec2Model ----
(***************************************************************************)
(* llm-schema: the schema definition / validation engine and the transform *)
(* pipeline (parse, safeParse, diff, merge), modelled as operators over a  *)
(* tagged encoding of JavaScript values.                                   *)
(***************************************************************************)
EXTENDS Integers, Sequences, FiniteSets, TLC

(***************************************************************************)
(* JavaScript values.  Every value is a record tagged by t.  Objects keep  *)
(* their own properties as a sequence of [k, v] pairs in insertion order   *)
(* (the order Object.keys / Object.entries enumerate); a property may hold *)
(* the value undefined, which differs from the property being missing.     *)
(***************************************************************************)
Undefined == [t |-> "undefined"]
Null == [t |-> "null"]
Bool(b) == [t |-> "boolean", b |-> b]
Num(n) == [t |-> "number", sp |-> "finite", n |-> n]
NaN == [t |-> "number", sp |-> "NaN", n |-> 0]
Infinity == [t |-> "number", sp |-> "Infinity", n |-> 0]
NegInfinity == [t |-> "number", sp |-> "-Infinity", n |-> 0]
Str(s) == [t |-> "string", s |-> s]
Arr(a) == [t |-> "array", a |-> a]
Obj(o) == [t |-> "object", o |-> o]
DateV(ms) == [t |-> "date", valid |-> TRUE, ms |-> ms]
InvalidDate == [t |-> "date", valid |-> FALSE, ms |-> 0]
FunctionV == [t |-> "function"]
P(k, v) == [k |-> k, v |-> v]

\* typeof value
TypeOf(v) ==
  CASE v.t = "undefined" -> "undefined"
    [] v.t = "boolean" -> "boolean"
    [] v.t = "number" -> "number"
    [] v.t = "string" -> "string"
    [] v.t = "function" -> "function"
    [] OTHER -> "object"

\* JavaScript truthiness (the && and ternary tests of the transform code)
Truthy(v) ==
  CASE v.t \in {"undefined", "null"} -> FALSE
    [] v.t = "boolean" -> v.b
    [] v.t = "number" -> ~(v.sp = "NaN" \/ (v.sp = "finite" /\ v.n = 0))
    [] v.t = "string" -> v.s # ""
    [] OTHER -> TRUE

\* the property names every plain object inherits from Object.prototype
ObjectPrototypeKeys ==
  {"constructor", "toString", "valueOf", "hasOwnProperty", "__proto__"}

HasOwn(obj, key) == obj.t = "object" /\ \E i \in 1..Len(obj.o) : obj.o[i].k = key

\* Object.keys(obj)
Keys(obj) == [i \in 1..Len(obj.o) |-> obj.o[i].k]

\* obj[key] for a string key that is not an array index
Get(obj, key) ==
  IF HasOwn(obj, key)
    THEN obj.o[CHOOSE i \in 1..Len(obj.o) : obj.o[i].k = key].v
    ELSE IF obj.t \in {"undefined", "null"} THEN Undefined
    ELSE IF key \in ObjectPrototypeKeys THEN FunctionV
    ELSE Undefined

\* obj[key] = v on a plain object: overwrite in place or append a new key
Set(obj, key, v) ==
  IF HasOwn(obj, key)
    THEN Obj([i \in 1..Len(obj.o) |->
                IF obj.o[i].k = key THEN P(key, v) ELSE obj.o[i]])
    ELSE Obj(Append(obj.o, P(key, v)))

\* key in definition: own keys of the definition literal or inherited ones
KeyIn(key, definition) ==
  \/ \E i \in 1..Len(definition) : definition[i].k = key
  \/ key \in ObjectPrototypeKeys

\* String(n) for a non-negative integer
String(n) == ToString(n)

(***************************************************************************)
(* utils: resolveOptional, issue, appendPath                               *)
(***************************************************************************)
Has(opts, name) == name \in DOMAIN opts

\* 'default' in opts && opts.default !== undefined
HasDefault(opts) == Has(opts, "default") /\ opts["default"] # Undefined

\* variant of resolveOptional: required is looked at before optional
resolveOptionalRequiredFirst(options) ==
  IF Has(options, "required") /\ options.required = TRUE THEN FALSE
  ELSE IF Has(options, "optional") /\ options.optional = TRUE THEN TRUE
  ELSE IF Has(options, "required") /\ options.required = FALSE THEN TRUE
  ELSE HasDefault(options)

\* variant of resolveOptional: any explicit required makes the field not-optional
resolveOptionalRequiredSet(options) ==
  IF Has(options, "optional") /\ options.optional = TRUE THEN TRUE
  ELSE IF Has(options, "required") THEN FALSE
  ELSE HasDefault(options)

resolveOptional(options) ==
  IF Has(options, "optional") /\ options.optional = TRUE THEN TRUE
  ELSE IF Has(options, "required") /\ options.required = TRUE THEN FALSE
  ELSE IF Has(options, "required") /\ options.required = FALSE THEN TRUE
  ELSE HasDefault(options)

issue(path, message, code, expected, received) ==
  [path |-> path, message |-> message, code |-> code,
   expected |-> expected, received |-> received]

appendPath(path, segment) == Append(path, segment)

Failure(issues) == [success |-> FALSE, issues |-> issues]
Thrown(name, message) == [thrown |-> TRUE, name |-> name, message |-> message]
IsThrown(r) == "thrown" \in DOMAIN r

(***************************************************************************)
(* internal: determineNumberPrecision, determineDate                       *)
(***************************************************************************)
\* value.toString().split('.')[1].length; the numbers of this model are
\* integers, NaN and the infinities, whose decimal text has no '.'
determineNumberPrecision(value) == 0

\* Date.parse of the ISO strings in play: text -> milliseconds since epoch
IsoTimestamps ==
  [s \in {"1970-01-01T00:00:00.000Z", "1970-01-01T00:00:01.000Z",
          "1970-01-01T00:00:02.000Z"} |->
     CASE s = "1970-01-01T00:00:00.000Z" -> 0
       [] s = "1970-01-01T00:00:01.000Z" -> 1000
       [] OTHER -> 2000]

\* new Date(string)
DateFromString(s) ==
  IF s \in DOMAIN IsoTimestamps THEN DateV(IsoTimestamps[s]) ELSE InvalidDate

\* new Date(number)
DateFromNumber(v, fromUnix) ==
  IF v.sp = "finite" THEN DateV(IF fromUnix THEN v.n * 1000 ELSE v.n)
  ELSE InvalidDate

determineDate(value, options) ==
  IF value.t = "date" /\ value.valid THEN [success |-> TRUE, value |-> value]
  ELSE IF value.t = "number" /\
          DateFromNumber(value, Has(options, "fromUnix") /\ options.fromUnix).valid
    THEN [success |-> TRUE,
          value |-> DateFromNumber(value, Has(options, "fromUnix") /\ options.fromUnix)]
  ELSE IF value.t = "string" /\ DateFromString(value.s).valid
    THEN [success |-> TRUE, value |-> DateFromString(value.s)]
  ELSE [success |-> FALSE, received |-> value]

\* resolved.issue(path) of a failed determineDate
DateIssue(resolved, path) ==
  issue(path, "Invalid date value. Expected ISO string, unix timestamp, or Date instance.",
        "invalid_date", Undefined, resolved.received)

(***************************************************************************)
(* fields: the leaf parsers                                                *)
(***************************************************************************)
\* A RegExp object: its source (a literal without metacharacters), its
\* flags and its lastIndex property, which a literal starts with at 0
RegExp(source, flags) == [source |-> source, flags |-> flags, lastIndex |-> 0]

HasFlag(pattern, c) ==
  \E i \in 1..Len(pattern.flags) : SubSeq(pattern.flags, i, i) = c

\* the source matches s at the 0-based index i
MatchAt(s, source, i) ==
  i + Len(source) <= Len(s) /\ SubSeq(s, i + 1, i + Len(source)) = source

\* RegExpBuiltinExec: the index of the match, -1 for none.  The search
\* starts at lastIndex under the g or y flag and at 0 otherwise; under y the
\* match must begin exactly there
MatchIndex(pattern, s) ==
  LET start == IF HasFlag(pattern, "g") \/ HasFlag(pattern, "y")
                 THEN pattern.lastIndex ELSE 0
      found == {i \in start..Len(s) : MatchAt(s, pattern.source, i)}
  IN IF start > Len(s) THEN -1
     ELSE IF HasFlag(pattern, "y")
       THEN (IF MatchAt(s, pattern.source, start) THEN start ELSE -1)
     ELSE IF found = {} THEN -1
     ELSE CHOOSE i \in found : \A j \in found : i <= j

\* variant of RegExpTest: lastIndex is not consulted
RegExpTestFromStart(pattern, s) ==
  \E i \in 0..Len(s) : MatchAt(s, pattern.source, i)

\* pattern.test(value): the answer
RegExpTest(pattern, s) == MatchIndex(pattern, s) # -1

\* pattern.test(value): the pattern object afterwards.  Under the g or y
\* flag lastIndex becomes the end of the match, or 0 when there is none
RegExpAfterTest(pattern, s) ==
  IF ~(HasFlag(pattern, "g") \/ HasFlag(pattern, "y")) THEN pattern
  ELSE [pattern EXCEPT !.lastIndex =
          IF MatchIndex(pattern, s) = -1 THEN 0
          ELSE MatchIndex(pattern, s) + Len(pattern.source)]

RegExpToString(pattern) == "/" \o pattern.source \o "/" \o pattern.flags

textParse(opts, value, path) ==
  IF TypeOf(value) # "string"
    THEN Failure(<<issue(path, "Expected text value", "invalid_type",
                         Str("string"), Str(TypeOf(value)))>>)
  ELSE IF Has(opts, "minLength") /\ Len(value.s) < opts.minLength
    THEN Failure(<<issue(path,
                         "Expected at least " \o ToString(opts.minLength) \o " characters",
                         "too_small", Str(">= " \o ToString(opts.minLength)),
                         Num(Len(value.s)))>>)
  ELSE IF Has(opts, "maxLength") /\ Len(value.s) > opts.maxLength
    THEN Failure(<<issue(path,
                         "Expected at most " \o ToString(opts.maxLength) \o " characters",
                         "too_big", Str("<= " \o ToString(opts.maxLength)),
                         Num(Len(value.s)))>>)
  ELSE IF Has(opts, "pattern") /\ ~RegExpTest(opts.pattern, value.s)
    THEN Failure(<<issue(path, "Value does not match required pattern",
                         "invalid_format", Str(RegExpToString(opts.pattern)), value)>>)
  ELSE [success |-> TRUE, value |-> value]

mdParse(opts, value, path) ==
  IF TypeOf(value) # "string"
    THEN Failure(<<issue(path, "Expected markdown string", "invalid_type",
                         Str("string"), Str(TypeOf(value)))>>)
  ELSE IF Has(opts, "maxLength") /\ Len(value.s) > opts.maxLength
    THEN Failure(<<issue(path,
                         "Markdown exceeds maximum length " \o ToString(opts.maxLength),
                         "too_big", Str("<= " \o ToString(opts.maxLength)),
                         Num(Len(value.s)))>>)
  ELSE [success |-> TRUE, value |-> value]

\* value < bound and value > bound on JavaScript numbers (value is not NaN)
NumLess(v, bound) == v.sp = "-Infinity" \/ (v.sp = "finite" /\ v.n < bound)
NumGreater(v, bound) == v.sp = "Infinity" \/ (v.sp = "finite" /\ v.n > bound)

numberParse(opts, value, path) ==
  IF TypeOf(value) # "number" \/ value.sp = "NaN"
    THEN Failure(<<issue(path, "Expected numeric value", "invalid_type",
                         Str("number"), value)>>)
  ELSE IF Has(opts, "min") /\ NumLess(value, opts.min)
    THEN Failure(<<issue(path, "Value must be >= " \o ToString(opts.min), "too_small",
                         Str(">= " \o ToString(opts.min)), value)>>)
  ELSE IF Has(opts, "max") /\ NumGreater(value, opts.max)
    THEN Failure(<<issue(path, "Value must be <= " \o ToString(opts.max), "too_big",
                         Str("<= " \o ToString(opts.max)), value)>>)
  ELSE IF Has(opts, "precision") /\ determineNumberPrecision(value) > opts.precision
    THEN Failure(<<issue(path,
                         "Value exceeds precision of " \o ToString(opts.precision) \o " decimals",
                         "invalid_format", Undefined, Undefined)>>)
  ELSE [success |-> TRUE, value |-> value]

booleanParse(opts, value, path) ==
  IF TypeOf(value) # "boolean"
    THEN Failure(<<issue(path, "Expected boolean value", "invalid_type",
                         Str("boolean"), Str(TypeOf(value)))>>)
  ELSE [success |-> TRUE, value |-> value]

\* the body of date.parse once determineDate has returned
DateResult(resolved, path) ==
  IF ~resolved.success THEN Failure(<<DateIssue(resolved, path)>>)
  ELSE [success |-> TRUE, value |-> resolved.value]

dateParse(opts, value, path) == DateResult(determineDate(value, opts), path)

\* values.join(sep)
RECURSIVE Join(_, _)
Join(values, sep) ==
  IF Len(values) = 0 THEN ""
  ELSE IF Len(values) = 1 THEN values[1]
  ELSE values[1] \o sep \o Join(Tail(values), sep)

enumParse(values, value, path) ==
  IF TypeOf(value) # "string"
    THEN Failure(<<issue(path, "Expected string enum value", "invalid_type",
                         Str("string"), Str(TypeOf(value)))>>)
  ELSE IF ~(\E i \in 1..Len(values) : values[i] = value.s)
    THEN Failure(<<issue(path, "Value must be one of: " \o Join(values, ", "),
                         "invalid_enum_value", Str(Join(values, " | ")), value)>>)
  ELSE [success |-> TRUE, value |-> value]

entityParse(opts, value, path) ==
  IF TypeOf(value) # "string"
    THEN Failure(<<issue(path, "Expected entity identifier string", "invalid_type",
                         Str("string"), Str(TypeOf(value)))>>)
  ELSE [success |-> TRUE, value |-> value]

(***************************************************************************)
(* fields: the constructors.  A descriptor's defaultValue is a producer    *)
(* that is invoked lazily: none (undefined), const (() => opts.default) or *)
(* date (resolve opts.default through determineDate, throw on failure).    *)
(***************************************************************************)
NoProducer == [fn |-> "none"]
ConstProducer(opts) == [fn |-> "const", v |-> opts["default"]]
DateProducer(opts) == [fn |-> "date", v |-> opts["default"], opts |-> opts]

\* variant of DateDefault: an unresolved default is returned, not thrown
DateDefaultUnchecked(resolved) ==
  [ok |-> TRUE, v |-> IF resolved.success THEN resolved.value ELSE InvalidDate]

\* field.defaultValue(): a returned value or a thrown Error
DateDefault(resolved) ==
  IF ~resolved.success THEN [ok |-> FALSE, v |-> Undefined]
  ELSE [ok |-> TRUE, v |-> resolved.value]

CallDefault(producer) ==
  IF producer.fn = "const" THEN [ok |-> TRUE, v |-> producer.v]
  ELSE DateDefault(determineDate(producer.v, producer.opts))

text(opts) ==
  [kind |-> "text", optional |-> resolveOptional(opts), hasDefault |-> HasDefault(opts),
   defaultValue |-> IF HasDefault(opts) THEN ConstProducer(opts) ELSE NoProducer,
   options |-> opts]

md(opts) ==
  [kind |-> "markdown", optional |-> resolveOptional(opts), hasDefault |-> HasDefault(opts),
   defaultValue |-> IF HasDefault(opts) THEN ConstProducer(opts) ELSE NoProducer,
   options |-> opts]

number(opts) ==
  [kind |-> "number", optional |-> resolveOptional(opts), hasDefault |-> HasDefault(opts),
   defaultValue |-> IF HasDefault(opts) THEN ConstProducer(opts) ELSE NoProducer,
   options |-> opts]

boolean(opts) ==
  [kind |-> "boolean", optional |-> resolveOptional(opts), hasDefault |-> HasDefault(opts),
   defaultValue |-> IF HasDefault(opts) THEN ConstProducer(opts) ELSE NoProducer,
   options |-> opts]

date(opts) ==
  [kind |-> "date", optional |-> resolveOptional(opts), hasDefault |-> HasDefault(opts),
   defaultValue |-> IF HasDefault(opts) THEN DateProducer(opts) ELSE NoProducer,
   options |-> opts]

enumType(values, opts) ==
  [kind |-> "enum", optional |-> resolveOptional(opts), hasDefault |-> HasDefault(opts),
   defaultValue |-> IF HasDefault(opts) THEN ConstProducer(opts) ELSE NoProducer,
   options |-> opts, values |-> values]

entity(type, opts) ==
  [kind |-> "entity", optional |-> resolveOptional(opts), hasDefault |-> HasDefault(opts),
   defaultValue |-> IF HasDefault(opts) THEN ConstProducer(opts) ELSE NoProducer,
   options |-> opts, entityType |-> type]

\* array and object descriptors never carry a producer (defaultValue: undefined)
array(options) ==
  [kind |-> "array", optional |-> resolveOptional(options),
   hasDefault |-> HasDefault(options), defaultValue |-> NoProducer,
   options |-> options, itemDefinition |-> options.schema]

object(options) ==
  [kind |-> "object", optional |-> resolveOptional(options),
   hasDefault |-> HasDefault(options), defaultValue |-> NoProducer,
   options |-> options, shape |-> options.schema]

(***************************************************************************)
(* validation: ensureObject, parseDefinition, parseRoot, and the composite *)
(* parsers that recurse through it                                         *)
(***************************************************************************)
\* options: ParseDefinitionOptions = {}: strict is undefined, which `if
\* (options.strict)` reads as false
DefaultParseOptions == [strict |-> FALSE]

\* variant of ensureObject: the Array.isArray test is left out
ensureObjectAcceptsArrays(value, path) ==
  IF TypeOf(value) # "object" \/ value.t = "null"
    THEN Failure(<<issue(path, "Expected object value", "invalid_type",
                         Str("object"), value)>>)
  ELSE [success |-> TRUE, value |-> value]

ensureObject(value, path) ==
  IF TypeOf(value) # "object" \/ value.t = "null" \/ value.t = "array"
    THEN Failure(<<issue(path, "Expected object value", "invalid_type",
                         Str("object"), value)>>)
  ELSE [success |-> TRUE, value |-> value]

\* Object.keys(record) of a value that passed ensureObject
OwnKeys(record) == IF record.t = "object" THEN Keys(record) ELSE <<>>

\* SameValueZero, the equality of Set.has: primitives by value (NaN equal to
\* NaN); the parsed items are fresh objects, so two object-valued keys are
\* never the same reference
SameValueZero(a, b) ==
  a.t \in {"undefined", "null", "boolean", "number", "string"} /\ a = b

\* the uniqueBy loop: the key of the first item whose key was seen before
RECURSIVE FirstDuplicate(_, _, _, _)
FirstDuplicate(result, uniqueBy, i, seen) ==
  IF i > Len(result) THEN [found |-> FALSE, key |-> Undefined]
  ELSE LET key == Get(result[i], uniqueBy) IN
       IF key = Undefined THEN FirstDuplicate(result, uniqueBy, i + 1, seen)
       ELSE IF \E j \in 1..Len(seen) : SameValueZero(seen[j], key)
         THEN [found |-> TRUE, key |-> key]
       ELSE FirstDuplicate(result, uniqueBy, i + 1, Append(seen, key))

RECURSIVE parseDefinition(_, _, _, _)
RECURSIVE FieldParse(_, _, _)
RECURSIVE ParseFieldsFrom(_, _, _, _, _)
RECURSIVE ParseItemsFrom(_, _, _, _, _)

\* value.forEach((item, index) => ...) of array.parse, from index i - 1 on
\* the forEach callback: push the item's data or its issues
ItemStep(acc, nested) ==
  IF IsThrown(nested) THEN [acc EXCEPT !.thrown = TRUE]
  ELSE IF nested.success THEN [acc EXCEPT !.result = Append(@, nested.data)]
  ELSE [acc EXCEPT !.issues = @ \o nested.issues]

ParseItemsFrom(options, value, path, i, acc) ==
  IF i > Len(value.a) \/ acc.thrown THEN acc
  ELSE ParseItemsFrom(options, value, path, i + 1,
         ItemStep(acc, parseDefinition(options.schema, value.a[i],
                                       appendPath(path, String(i - 1)),
                                       DefaultParseOptions)))

\* the end of array.parse: the collected issues, else the uniqueBy check
ArrayResult(options, path, acc) ==
  IF acc.thrown THEN Thrown("Error", "Invalid default date value")
  ELSE IF Len(acc.issues) > 0 THEN Failure(acc.issues)
  ELSE IF Has(options, "uniqueBy") /\ options.uniqueBy # "" /\
          FirstDuplicate(acc.result, options.uniqueBy, 1, <<>>).found
    THEN Failure(<<issue(path,
                         "Array items must be unique by \"" \o options.uniqueBy \o "\"",
                         "invalid_format", Undefined,
                         FirstDuplicate(acc.result, options.uniqueBy, 1, <<>>).key)>>)
  ELSE [success |-> TRUE, value |-> Arr(acc.result)]

\* variant of arrayParse: a violated length bound ends the parse before the
\* elements are looked at
arrayParseBoundsFirst(options, value, path) ==
  IF value.t # "array"
    THEN Failure(<<issue(path, "Expected array value", "invalid_type",
                         Str("array"), Str(TypeOf(value)))>>)
  ELSE IF Has(options, "minItems") /\ Len(value.a) < options.minItems
    THEN Failure(<<issue(path,
                         "Expected at least " \o ToString(options.minItems) \o " items",
                         "too_small", Str(">= " \o ToString(options.minItems)),
                         Num(Len(value.a)))>>)
  ELSE IF Has(options, "maxItems") /\ Len(value.a) > options.maxItems
    THEN Failure(<<issue(path,
                         "Expected at most " \o ToString(options.maxItems) \o " items",
                         "too_big", Str("<= " \o ToString(options.maxItems)),
                         Num(Len(value.a)))>>)
  ELSE ArrayResult(options, path,
         ParseItemsFrom(options, value, path, 1,
           [result |-> <<>>, issues |-> <<>>, thrown |-> FALSE]))

arrayParse(options, value, path) ==
  IF value.t # "array"
    THEN Failure(<<issue(path, "Expected array value", "invalid_type",
                         Str("array"), Str(TypeOf(value)))>>)
  ELSE
    LET small == IF Has(options, "minItems") /\ Len(value.a) < options.minItems
                   THEN <<issue(path,
                                "Expected at least " \o ToString(options.minItems) \o " items",
                                "too_small", Str(">= " \o ToString(options.minItems)),
                                Num(Len(value.a)))>>
                   ELSE <<>>
        big == IF Has(options, "maxItems") /\ Len(value.a) > options.maxItems
                 THEN <<issue(path,
                              "Expected at most " \o ToString(options.maxItems) \o " items",
                              "too_big", Str("<= " \o ToString(options.maxItems)),
                              Num(Len(value.a)))>>
                 ELSE <<>>
    IN ArrayResult(options, path,
         ParseItemsFrom(options, value, path, 1,
           [result |-> <<>>, issues |-> small \o big, thrown |-> FALSE]))

\* variant of ObjectResult: the nested issues are dropped
ObjectResultIgnoringIssues(nested) ==
  IF IsThrown(nested) THEN nested
  ELSE IF nested.success THEN [success |-> TRUE, value |-> nested.data]
  ELSE [success |-> TRUE, value |-> Obj(<<>>)]

\* the body of object.parse once the nested parseDefinition has returned
ObjectResult(nested) ==
  IF IsThrown(nested) THEN nested
  ELSE IF nested.success THEN [success |-> TRUE, value |-> nested.data]
  ELSE Failure(nested.issues)

\* variant of objectParse: the nested parse rejects unknown keys
objectParseStrict(options, value, path) ==
  ObjectResult(parseDefinition(options.schema, value, path, [strict |-> TRUE]))

objectParse(options, value, path) ==
  ObjectResult(parseDefinition(options.schema, value, path, DefaultParseOptions))

\* field.parse(value, { path }): dispatch on the descriptor's kind
FieldParse(field, value, path) ==
  CASE field.kind = "text" -> textParse(field.options, value, path)
    [] field.kind = "markdown" -> mdParse(field.options, value, path)
    [] field.kind = "number" -> numberParse(field.options, value, path)
    [] field.kind = "boolean" -> booleanParse(field.options, value, path)
    [] field.kind = "date" -> dateParse(field.options, value, path)
    [] field.kind = "enum" -> enumParse(field.values, value, path)
    [] field.kind = "entity" -> entityParse(field.options, value, path)
    [] field.kind = "array" -> arrayParse(field.options, value, path)
    [] OTHER -> objectParse(field.options, value, path)

\* the for-loop over Object.keys(definition), from the i-th key on
\* result[key] = field.defaultValue(), or the Error the producer throws
AssignDefault(acc, key, produced) ==
  IF produced.ok THEN [acc EXCEPT !.result = Set(@, key, produced.v)]
  ELSE [acc EXCEPT !.thrown = TRUE]

\* a present raw value: assign the parsed value or append the field's issues
AssignParsed(acc, key, parseResult) ==
  IF IsThrown(parseResult) THEN [acc EXCEPT !.thrown = TRUE]
  ELSE IF parseResult.success THEN [acc EXCEPT !.result = Set(@, key, parseResult.value)]
  ELSE [acc EXCEPT !.issues = @ \o parseResult.issues]

\* variant of FieldStep: only undefined counts as missing, null is parsed
FieldStepNullPresent(acc, key, field, fieldPath, raw) ==
  IF raw = Undefined
    THEN IF field.optional
           THEN IF field.hasDefault /\ field.defaultValue.fn # "none"
                  THEN AssignDefault(acc, key, CallDefault(field.defaultValue))
                  ELSE acc
           ELSE [acc EXCEPT !.issues =
                   Append(@, issue(fieldPath, "Field is required", "required",
                                   Undefined, Undefined))]
  ELSE AssignParsed(acc, key, FieldParse(field, raw, fieldPath))

\* one iteration of the loop over the definition's keys
FieldStep(acc, key, field, fieldPath, raw) ==
  IF raw = Undefined \/ raw = Null
    THEN IF field.optional
           THEN IF field.hasDefault /\ field.defaultValue.fn # "none"
                  THEN AssignDefault(acc, key, CallDefault(field.defaultValue))
                  ELSE acc
           ELSE [acc EXCEPT !.issues =
                   Append(@, issue(fieldPath, "Field is required", "required",
                                   Undefined, Undefined))]
  ELSE AssignParsed(acc, key, FieldParse(field, raw, fieldPath))

\* variant of ParseFieldsFrom: the loop stops at the first field with an issue
RECURSIVE ParseFieldsFromShortCircuit(_, _, _, _, _)
ParseFieldsFromShortCircuit(definition, record, path, i, acc) ==
  IF i > Len(definition) \/ acc.thrown \/ Len(acc.issues) > 0 THEN acc
  ELSE ParseFieldsFromShortCircuit(definition, record, path, i + 1,
         FieldStep(acc, definition[i].k, definition[i].f,
                   appendPath(path, definition[i].k), Get(record, definition[i].k)))

ParseFieldsFrom(definition, record, path, i, acc) ==
  IF i > Len(definition) \/ acc.thrown THEN acc
  ELSE ParseFieldsFrom(definition, record, path, i + 1,
         FieldStep(acc, definition[i].k, definition[i].f,
                   appendPath(path, definition[i].k), Get(record, definition[i].k)))

\* the strict-mode loop over Object.keys(record)
UnexpectedFieldIssues(definition, record, path) ==
  LET keys == OwnKeys(record)
      unknown == SelectSeq(keys, LAMBDA key : ~KeyIn(key, definition))
  IN [i \in 1..Len(unknown) |->
        issue(appendPath(path, unknown[i]), "Unexpected field", "invalid_type",
              Undefined, Undefined)]

\* the end of parseDefinition: failure if any issue was collected
DefinitionResult(result, issues) ==
  IF Len(issues) > 0 THEN Failure(issues)
  ELSE [success |-> TRUE, data |-> result]

\* the strict-mode check that follows the loop over the definition
AfterFields(definition, record, path, options, acc) ==
  IF acc.thrown THEN Thrown("Error", "Invalid default date value")
  ELSE DefinitionResult(acc.result,
         IF Has(options, "strict") /\ options.strict
           THEN acc.issues \o UnexpectedFieldIssues(definition, record, path)
           ELSE acc.issues)

parseDefinition(definition, value, path, options) ==
  IF ~ensureObject(value, path).success THEN ensureObject(value, path)
  ELSE AfterFields(definition, value, path, options,
         ParseFieldsFrom(definition, value, path, 1,
           [result |-> Obj(<<>>), issues |-> <<>>, thrown |-> FALSE]))

parseRoot(definition, value, options) ==
  parseDefinition(definition, value, <<>>, [strict |-> options.strict])

(***************************************************************************)
(* JSON.stringify and JSON.parse.  Strings of the model contain no quote   *)
(* or backslash, so a string is encoded by wrapping it in quotes.          *)
(***************************************************************************)
Pad2(n) == IF n < 10 THEN "0" \o ToString(n) ELSE ToString(n)
Pad3(n) == IF n < 10 THEN "00" \o ToString(n)
           ELSE IF n < 100 THEN "0" \o ToString(n) ELSE ToString(n)

\* Date.prototype.toISOString for a timestamp within the first minute of 1970
ToISOString(ms) ==
  "1970-01-01T00:00:" \o Pad2(ms \div 1000) \o "." \o Pad3(ms % 1000) \o "Z"

RECURSIVE JSONstringify(_)
RECURSIVE StringifyItems(_, _)
RECURSIVE StringifyProps(_, _, _)

\* the elements of an array; undefined and functions are written as null
StringifyItems(a, i) ==
  IF i > Len(a) THEN ""
  ELSE (IF i > 1 THEN "," ELSE "") \o
       (IF a[i].t \in {"undefined", "function"} THEN "null" ELSE JSONstringify(a[i])) \o
       StringifyItems(a, i + 1)

\* the properties of an object; undefined and functions are left out
StringifyProps(o, i, first) ==
  IF i > Len(o) THEN ""
  ELSE IF o[i].v.t \in {"undefined", "function"} THEN StringifyProps(o, i + 1, first)
  ELSE (IF first THEN "" ELSE ",") \o "\"" \o o[i].k \o "\":" \o JSONstringify(o[i].v) \o
       StringifyProps(o, i + 1, FALSE)

JSONstringify(v) ==
  CASE v.t = "null" -> "null"
    [] v.t = "boolean" -> IF v.b THEN "true" ELSE "false"
    [] v.t = "number" -> IF v.sp = "finite" THEN ToString(v.n) ELSE "null"
    [] v.t = "string" -> "\"" \o v.s \o "\""
    [] v.t = "date" -> IF v.valid THEN "\"" \o ToISOString(v.ms) \o "\"" ELSE "null"
    [] v.t = "array" -> "[" \o StringifyItems(v.a, 1) \o "]"
    [] OTHER -> "{" \o StringifyProps(v.o, 1, TRUE) \o "}"

\* the value JSON text denotes: what is left of v after encoding
RECURSIVE JsonValueOf(_)
JsonValueOf(v) ==
  CASE v.t \in {"undefined", "function"} -> Null
    [] v.t = "number" -> IF v.sp = "finite" THEN v ELSE Null
    [] v.t = "date" -> IF v.valid THEN Str(ToISOString(v.ms)) ELSE Null
    [] v.t = "array" -> Arr([i \in 1..Len(v.a) |-> JsonValueOf(v.a[i])])
    [] v.t = "object" ->
         LET kept == SelectSeq(v.o, LAMBDA p : p.v.t \notin {"undefined", "function"})
         IN Obj([i \in 1..Len(kept) |-> P(kept[i].k, JsonValueOf(kept[i].v))])
    [] OTHER -> v

(***************************************************************************)
(* The schemas in play (definitions are ordered lists of [k, f] entries,   *)
(* the order of Object.keys(definition)) and, for each field, the raw      *)
(* values an input may carry for it.                                       *)
(***************************************************************************)
F(k, f) == [k |-> k, f |-> f]

\* the longest array an input carries
MaxItems == 2

\* all sequences over S of length at most n
RECURSIVE SeqsUpTo(_, _)
SeqsUpTo(S, n) ==
  IF n = 0 THEN {<<>>}
  ELSE LET shorter == SeqsUpTo(S, n - 1)
       IN shorter \cup {Append(q, x) : q \in {r \in shorter : Len(r) = n - 1}, x \in S}

ArraysOf(items) == {Arr(q) : q \in SeqsUpTo(items, MaxItems)}

\* spec 8, concrete scenario: title: text(required), items: array({task, done})
NotesItemDefinition ==
  <<F("task", text([description |-> "What to do"])),
    F("done", boolean([default |-> Bool(FALSE)]))>>

NotesDefinition ==
  <<F("title", text([description |-> "Meeting title"])),
    F("items", array([description |-> "Action items", schema |-> NotesItemDefinition]))>>

NotesItems ==
  {Obj(<<P("task", Str("A"))>>),
   Obj(<<P("task", Str("B")), P("done", Bool(TRUE))>>),
   Obj(<<P("done", Str("A"))>>),
   Num(1)}

NotesCandidates ==
  [title |-> {Null, Str("A"), Str("Budget plan"), Num(1)},
   items |-> {Null, Str("A")} \cup ArraysOf(NotesItems)]

\* the leaf kinds of tests/schema.test.ts: enum with default, bounded markdown
\* and number, optional date
KindsDefinition ==
  <<F("priority", enumType(<<"high", "medium", "low">>, [default |-> Str("medium")])),
    F("summary", md([optional |-> TRUE, maxLength |-> 5])),
    F("durationMinutes", number([min |-> 0, max |-> 480, optional |-> TRUE])),
    F("scheduledFor", date([optional |-> TRUE]))>>

KindsCandidates ==
  [priority |-> {Null, Str("high"), Str("urgent")},
   summary |-> {Str("A"), Str("Budget plan"), Num(1)},
   durationMinutes |-> {Num(0), Num(480), Num(481), Num(-1), NaN, Infinity, NegInfinity,
                       Str("A")},
   scheduledFor |-> {Str("1970-01-01T00:00:01.000Z"), DateV(1000), DateV(2000), Str("A")}]

\* composite fields: a required object, and an array configured with a default
MetaShape ==
  <<F("owner", entity("person", [description |-> "Person responsible"])),
    F("count", number([optional |-> TRUE]))>>

TagDefinition == <<F("label", text([minLength |-> 1]))>>

NestedDefinition ==
  <<F("meta", object([description |-> "Metadata", schema |-> MetaShape])),
    F("tags", array([schema |-> TagDefinition, default |-> Arr(<<>>)]))>>

NestedCandidates ==
  [meta |-> {Null, Str("A"),
             Obj(<<P("owner", Str("alice"))>>),
             Obj(<<P("owner", Str("bob")), P("count", Num(3))>>),
             Obj(<<P("owner", Str("alice")), P("count", Infinity)>>),
             Obj(<<P("owner", Str("alice")), P("count", NegInfinity)>>),
             Obj(<<P("owner", Str("alice")), P("count", NaN)>>),
             Obj(<<P("owner", Str("alice")), P("extra", Num(1))>>),
             Obj(<<P("count", Str("A"))>>)},
   tags |-> {Null, Str("A")} \cup
            ArraysOf({Obj(<<P("label", Str("x"))>>),
                      Obj(<<P("label", Str("x")), P("extra", Num(1))>>),
                      Obj(<<P("label", Num(1))>>)})]

\* entity leaves at the root and inside array items, of two entity types
TeamMemberDefinition ==
  <<F("name", entity("person", [description |-> "Member"])),
    F("group", entity("team", [optional |-> TRUE]))>>

TeamDefinition ==
  <<F("lead", entity("person", [description |-> "Person responsible"])),
    F("members", array([schema |-> TeamMemberDefinition]))>>

TeamCandidates ==
  [lead |-> {Str("alice"), Num(12)},
   members |-> {Str("A")} \cup
               ArraysOf({Obj(<<P("name", Str("bob"))>>),
                         Obj(<<P("name", Str("bob")), P("group", Str("core"))>>),
                         Obj(<<P("name", Str("Alice")), P("group", Str("core"))>>),
                         Num(1)})]

\* one field for each combination of optional, required and default
PrecedenceDefinition ==
  <<F("a", text([optional |-> TRUE, required |-> TRUE])),
    F("b", number([required |-> TRUE, default |-> Num(5), min |-> 0])),
    F("c", boolean([default |-> Bool(TRUE)])),
    F("d", enumType(<<"on", "off">>, [description |-> "Switch"])),
    F("e", entity("person", [required |-> FALSE])),
    F("f", md([required |-> FALSE, default |-> Str("x")]))>>

PrecedenceCandidates ==
  [a |-> {Str("A"), Null},
   b |-> {Num(1), Num(-1), Infinity, Null},
   c |-> {Bool(FALSE)},
   d |-> {Str("on")},
   e |-> {Str("alice")},
   f |-> {Str("y")}]

\* date fields with a default: one that determineDate cannot resolve, one
\* that it can
ScheduleDefinition ==
  <<F("due", date([default |-> Str("soon")])),
    F("start", date([default |-> Str("1970-01-01T00:00:01.000Z")]))>>

ScheduleCandidates ==
  [due |-> {Null, Str("1970-01-01T00:00:02.000Z"), Str("A")},
   start |-> {Null, DateV(1000), Num(2000), Bool(TRUE)}]

\* an array with inclusive length bounds and an object with a default
RosterEntryDefinition ==
  <<F("id", text([default |-> Str("a")])),
    F("n", number([optional |-> TRUE, min |-> 0]))>>

RosterOwnerShape == <<F("name", text([description |-> "Owner"]))>>

RosterDefinition ==
  <<F("entries", array([schema |-> RosterEntryDefinition, minItems |-> 1, maxItems |-> 1])),
    F("owner", object([schema |-> RosterOwnerShape,
                       default |-> Obj(<<P("name", Str("x"))>>)]))>>

RosterCandidates ==
  [entries |-> {Str("A")} \cup
               ArraysOf({Obj(<<P("id", Str("b")), P("n", Num(1))>>),
                         Obj(<<P("n", Num(-1))>>),
                         Obj(<<P("id", Num(1)), P("extra", Num(1))>>)}),
   owner |-> {Null, Obj(<<P("name", Str("y")), P("extra", Num(1))>>), Obj(<<>>)}]

\* arrays with uniqueBy: on a text sub-field with a default, and on a date
\* sub-field
UniqueItemDefinition ==
  <<F("id", text([default |-> Str("a")])),
    F("when", date([optional |-> TRUE]))>>

UniqueDefinition ==
  <<F("byId", array([schema |-> UniqueItemDefinition, uniqueBy |-> "id",
                     optional |-> TRUE])),
    F("byDate", array([schema |-> UniqueItemDefinition, uniqueBy |-> "when",
                       optional |-> TRUE]))>>

UniqueCandidates ==
  [byId |-> {Arr(<<Obj(<<P("id", Str("a"))>>), Obj(<<P("id", Str("b"))>>)>>),
             Arr(<<Obj(<<P("id", Str("a"))>>), Obj(<<>>)>>),
             Arr(<<Obj(<<P("id", Str("b"))>>), Obj(<<P("id", Str("a"))>>),
                   Obj(<<P("id", Str("a"))>>), Obj(<<P("id", Str("b"))>>)>>),
             Arr(<<Obj(<<P("id", Num(1))>>), Obj(<<P("id", Num(1))>>)>>)},
   byDate |-> {Arr(<<Obj(<<P("when", Str("1970-01-01T00:00:01.000Z"))>>),
                     Obj(<<P("when", Str("1970-01-01T00:00:02.000Z"))>>)>>),
               Arr(<<Obj(<<P("when", Str("1970-01-01T00:00:01.000Z"))>>),
                     Obj(<<P("when", Num(1000))>>)>>),
               Arr(<<Obj(<<P("id", Str("b"))>>), Obj(<<P("id", Str("c"))>>)>>)}]

\* objects that do not satisfy their schema: fields missing or of the wrong
\* type
NotesMalformed ==
  {Obj(<<P("title", Num(12)), P("items", Str("A"))>>),
   Obj(<<P("items", Arr(<<Num(1), Obj(<<P("task", Num(1)), P("done", Str("A"))>>)>>))>>)}

KindsMalformed ==
  {Obj(<<P("priority", Num(1)), P("summary", Obj(<<>>)), P("durationMinutes", Str("A")),
         P("scheduledFor", Bool(TRUE))>>),
   Obj(<<P("summary", Num(12))>>)}

NestedMalformed ==
  {Obj(<<P("meta", Str("A")), P("tags", Num(1))>>),
   Obj(<<P("meta", Obj(<<P("owner", Num(12)), P("count", Str("A"))>>)),
         P("tags", Obj(<<>>))>>)}

TeamMalformed ==
  {Obj(<<P("lead", Num(12)), P("members", Str("A"))>>),
   Obj(<<P("lead", Obj(<<>>)),
         P("members", Arr(<<Num(1), Obj(<<P("name", Num(1))>>)>>))>>)}

PrecedenceMalformed ==
  {Obj(<<P("a", Num(1)), P("d", Bool(TRUE)), P("e", Num(12))>>),
   Obj(<<P("b", Str("A")), P("f", Arr(<<Num(1)>>))>>)}

ScheduleMalformed ==
  {Obj(<<P("due", Bool(TRUE))>>),
   Obj(<<P("due", Str("A")), P("start", Obj(<<>>))>>)}

RosterMalformed ==
  {Obj(<<P("entries", Str("A")), P("owner", Num(1))>>),
   Obj(<<P("entries", Arr(<<Num(1)>>)), P("owner", Obj(<<P("name", Num(12))>>))>>)}

UniqueMalformed ==
  {Obj(<<P("byId", Num(1))>>),
   Obj(<<P("byId", Arr(<<Obj(<<P("id", Num(12))>>)>>)), P("byDate", Str("A"))>>)}

Schemas ==
  <<[definition |-> NotesDefinition, candidates |-> NotesCandidates,
     malformed |-> NotesMalformed],
    [definition |-> KindsDefinition, candidates |-> KindsCandidates,
     malformed |-> KindsMalformed],
    [definition |-> NestedDefinition, candidates |-> NestedCandidates,
     malformed |-> NestedMalformed],
    [definition |-> TeamDefinition, candidates |-> TeamCandidates,
     malformed |-> TeamMalformed],
    [definition |-> PrecedenceDefinition, candidates |-> PrecedenceCandidates,
     malformed |-> PrecedenceMalformed],
    [definition |-> ScheduleDefinition, candidates |-> ScheduleCandidates,
     malformed |-> ScheduleMalformed],
    [definition |-> RosterDefinition, candidates |-> RosterCandidates,
     malformed |-> RosterMalformed],
    [definition |-> UniqueDefinition, candidates |-> UniqueCandidates,
     malformed |-> UniqueMalformed]>>

\* every way to leave out or fill in the fields from the i-th on
RECURSIVE ObjectsFrom(_, _, _)
ObjectsFrom(definition, candidates, i) ==
  IF i > Len(definition) THEN {<<>>}
  ELSE LET rest == ObjectsFrom(definition, candidates, i + 1)
           k == definition[i].k
       IN rest \cup {<<P(k, c)>> \o r : c \in candidates[k], r \in rest}

\* keys no definition declares: none, an ordinary one, one that
\* Object.prototype also has
ExtraKeys == {<<>>, <<P("extra", Num(1))>>, <<P("constructor", Str("A"))>>}

DeclaredInputs(s) ==
  {Obj(o) : o \in ObjectsFrom(Schemas[s].definition, Schemas[s].candidates, 1)}

ObjectInputs(s) ==
  {Obj(d.o \o extra) : d \in DeclaredInputs(s), extra \in ExtraKeys}

\* root values that are not keyed objects, and strings that are not JSON or
\* are JSON for something else than an object
BadRoots ==
  {Undefined, Null, Num(1), Bool(TRUE), FunctionV, Arr(<<>>), Arr(<<Obj(<<>>)>>),
   Str("not json"), Str(""), Str("{"), Str("12"), Str("null"), Str("true"),
   Str("[]"), Str("\"A\"")}

\* the JSON documents whose text is in play
JsonDocuments ==
  {Num(12), Null, Bool(TRUE), Arr(<<>>), Str("A")} \cup
  UNION {{JsonValueOf(d) : d \in ObjectInputs(s)} : s \in 1..Len(Schemas)}

JsonTable == {<<JSONstringify(j), j>> : j \in JsonDocuments}

\* JSON.parse(text): the document with that text, or a SyntaxError
Decoded(hits) ==
  IF hits = {} THEN [ok |-> FALSE, message |-> "Unexpected token in JSON"]
  ELSE [ok |-> TRUE, value |-> (CHOOSE p \in hits : TRUE)[2]]

JSONparse(txt) == Decoded({p \in JsonTable : p[1] = txt})

(***************************************************************************)
(* builder: normalizeOptions, normalizeInput, defineSchema                 *)
(***************************************************************************)
normalizeOptions(options) ==
  [name |-> IF Has(options, "name") THEN options.name ELSE "Schema",
   description |-> IF Has(options, "description") THEN options.description ELSE "",
   version |-> IF Has(options, "version") THEN options.version ELSE "1.0.0",
   strict |-> IF Has(options, "strict") THEN options.strict ELSE FALSE,
   examples |-> IF Has(options, "examples") THEN options.examples ELSE <<>>]

\* the try / catch around JSON.parse
DecodedInput(input, parsed) ==
  IF parsed.ok THEN [success |-> TRUE, data |-> parsed.value]
  ELSE Failure(<<issue(<<>>, "Failed to parse JSON input: " \o parsed.message,
                       "invalid_format", Str("json_object"), input)>>)

normalizeInput(input) ==
  IF TypeOf(input) = "string" THEN DecodedInput(input, JSONparse(input.s))
  ELSE IF TypeOf(input) # "object" \/ input = Null
    THEN Failure(<<issue(<<>>, "Expected object input", "invalid_type",
                         Str("object"), input)>>)
  ELSE [success |-> TRUE, data |-> input]

defineSchema(definition, options) ==
  [definition |-> definition, options |-> normalizeOptions(options)]

\* safeParse once the input is normalized
ParseNormalized(schema, normalizedInput) ==
  IF ~normalizedInput.success THEN normalizedInput
  ELSE parseRoot(schema.definition, normalizedInput.data, schema.options)

safeParse(schema, input) == ParseNormalized(schema, normalizeInput(input))

\* new SchemaError(message, issues)
SchemaError(message, issues) ==
  [thrown |-> TRUE, name |-> "SchemaError", message |-> message, issues |-> issues]

\* variant of ThrowOnFailure: the error keeps only the first issue
ThrowOnFailureFirstIssue(result) ==
  IF IsThrown(result) THEN result
  ELSE IF ~result.success
    THEN SchemaError("Failed to parse schema data", <<result.issues[1]>>)
  ELSE [returned |-> TRUE, value |-> result.data]

\* parse once safeParse has returned: the data, or the error thrown
ThrowOnFailure(result) ==
  IF IsThrown(result) THEN result
  ELSE IF ~result.success THEN SchemaError("Failed to parse schema data", result.issues)
  ELSE [returned |-> TRUE, value |-> result.data]

parse(schema, input) == ThrowOnFailure(safeParse(schema, input))

\* What a parse leaves behind.  The only object a parser writes to that
\* outlives the call is the RegExp of a text field, through pattern.test.
\* The options of a text field after text.parse(value): the pattern is
\* tested only when the value is a string within the length bounds
textOptionsAfterParse(opts, value) ==
  IF /\ TypeOf(value) = "string"
     /\ ~(Has(opts, "minLength") /\ Len(value.s) < opts.minLength)
     /\ ~(Has(opts, "maxLength") /\ Len(value.s) > opts.maxLength)
     /\ Has(opts, "pattern")
    THEN [opts EXCEPT !.pattern = RegExpAfterTest(@, value.s)]
    ELSE opts

\* the descriptor after field.parse(value).  No schema in play carries a
\* pattern inside an object shape or an array item, so a composite
\* descriptor is left as it is
FieldAfterParse(field, value) ==
  IF field.kind = "text"
    THEN [field EXCEPT !.options = textOptionsAfterParse(@, value)]
    ELSE field

\* the definition after the loop of parseDefinition over a root record
DefinitionAfterParse(definition, record) ==
  [i \in 1..Len(definition) |->
     IF Get(record, definition[i].k) = Undefined \/ Get(record, definition[i].k) = Null
       THEN definition[i]
       ELSE [definition[i] EXCEPT !.f = FieldAfterParse(@, Get(record, definition[i].k))]]

\* the schema handle after safeParse(input) or parse(input)
SchemaAfterParse(schema, input) ==
  IF normalizeInput(input).success /\
     ensureObject(normalizeInput(input).data, <<>>).success
    THEN [schema EXCEPT !.definition =
            DefinitionAfterParse(@, normalizeInput(input).data)]
    ELSE schema

(***************************************************************************)
(* transform: joinPath, deepEqual, diffSchemaData, mergeSchemaData.        *)
(* Values carry no identity, so the operators that use === take a flag     *)
(* saying whether their two arguments are one and the same reference (as   *)
(* in diff(x, x)); two data instances share no sub-object otherwise.       *)
(***************************************************************************)
\* variant of joinPath: the parent path is dropped
joinPathKeyOnly(parent, key) == key

joinPath(parent, key) == IF parent # "" THEN parent \o "." \o key ELSE key

\* a === b
StrictEquals(a, b, aliased) ==
  IF a.t \in {"undefined", "null", "boolean", "string"} THEN a = b
  ELSE IF a.t = "number" THEN a = b /\ a.sp # "NaN"
  ELSE aliased /\ a = b

\* Object.entries(value) of an object, an array or a Date
Entries(value) ==
  CASE value.t = "object" -> value.o
    [] value.t = "array" -> [i \in 1..Len(value.a) |-> P(String(i - 1), value.a[i])]
    [] OTHER -> <<>>

\* value[key] for any value
GetProp(value, key) ==
  IF value.t = "array"
    THEN IF \E i \in 1..Len(value.a) : String(i - 1) = key
           THEN value.a[CHOOSE i \in 1..Len(value.a) : String(i - 1) = key]
           ELSE IF key \in ObjectPrototypeKeys THEN FunctionV ELSE Undefined
    ELSE Get(value, key)

\* variant of deepEqual: values are compared with === only
deepEqualByReference(a, b, aliased) == StrictEquals(a, b, aliased)

\* variant of deepEqual: the entry counts of two objects are not compared
RECURSIVE deepEqualSubset(_, _, _)
deepEqualSubset(a, b, aliased) ==
  IF StrictEquals(a, b, aliased) THEN TRUE
  ELSE IF a.t = "date" /\ b.t = "date" THEN a.valid /\ b.valid /\ a.ms = b.ms
  ELSE IF TypeOf(a) # TypeOf(b) THEN FALSE
  ELSE IF TypeOf(a) # "object" \/ a = Null \/ b = Null THEN FALSE
  ELSE IF a.t = "array" /\ b.t = "array"
    THEN IF Len(a.a) # Len(b.a) THEN FALSE
         ELSE \A i \in 1..Len(a.a) : deepEqualSubset(a.a[i], b.a[i], aliased)
  ELSE \A i \in 1..Len(Entries(a)) :
         deepEqualSubset(Entries(a)[i].v, GetProp(b, Entries(a)[i].k), aliased)

RECURSIVE deepEqual(_, _, _)
deepEqual(a, b, aliased) ==
  IF StrictEquals(a, b, aliased) THEN TRUE
  ELSE IF a.t = "date" /\ b.t = "date" THEN a.valid /\ b.valid /\ a.ms = b.ms
  ELSE IF TypeOf(a) # TypeOf(b) THEN FALSE
  ELSE IF TypeOf(a) # "object" \/ a = Null \/ b = Null THEN FALSE
  ELSE IF a.t = "array" /\ b.t = "array"
    THEN IF Len(a.a) # Len(b.a) THEN FALSE
         ELSE \A i \in 1..Len(a.a) : deepEqual(a.a[i], b.a[i], aliased)
  ELSE IF Len(Entries(a)) # Len(Entries(b)) THEN FALSE
  ELSE \A i \in 1..Len(Entries(a)) :
         deepEqual(Entries(a)[i].v, GetProp(b, Entries(a)[i].k), aliased)

NoChanges == [added |-> <<>>, removed |-> <<>>, changed |-> <<>>]

\* array[index], undefined past the end
At(a, i) == IF i <= Len(a) THEN a[i] ELSE Undefined

\* variant of WalkItems: the loop runs to the shorter length only
RECURSIVE WalkItemsToShorter(_, _, _, _, _, _)
WalkItemsToShorter(prevArray, nextArray, path, i, aliased, acc) ==
  IF i > Len(prevArray) \/ i > Len(nextArray) THEN acc
  ELSE
    LET prevItem == At(prevArray, i)
        nextItem == At(nextArray, i)
        itemPath == joinPath(path, String(i - 1))
    IN WalkItemsToShorter(prevArray, nextArray, path, i + 1, aliased,
         IF ~deepEqual(prevItem, nextItem, aliased)
           THEN [acc EXCEPT !.changed =
                   Append(@, [path |-> itemPath, before |-> prevItem, after |-> nextItem])]
         ELSE acc)

\* the index loop of walk's array branch, from index i - 1 on
RECURSIVE WalkItems(_, _, _, _, _, _)
WalkItems(prevArray, nextArray, path, i, aliased, acc) ==
  IF i > Len(prevArray) /\ i > Len(nextArray) THEN acc
  ELSE
    LET prevItem == At(prevArray, i)
        nextItem == At(nextArray, i)
        itemPath == joinPath(path, String(i - 1))
    IN WalkItems(prevArray, nextArray, path, i + 1, aliased,
         IF prevItem = Undefined /\ nextItem # Undefined
           THEN [acc EXCEPT !.added = Append(@, [path |-> itemPath, after |-> nextItem])]
         ELSE IF prevItem # Undefined /\ nextItem = Undefined
           THEN [acc EXCEPT !.removed = Append(@, [path |-> itemPath, before |-> prevItem])]
         ELSE IF ~deepEqual(prevItem, nextItem, aliased)
           THEN [acc EXCEPT !.changed =
                   Append(@, [path |-> itemPath, before |-> prevItem, after |-> nextItem])]
         ELSE acc)

RECURSIVE walk(_, _, _, _, _, _)
RECURSIVE WalkShape(_, _, _, _, _, _, _)

\* the loop over Object.keys(nestedDefinition), from the i-th key on
WalkShape(shape, prevValue, nextValue, path, i, aliased, acc) ==
  IF i > Len(shape) THEN acc
  ELSE WalkShape(shape, prevValue, nextValue, path, i + 1, aliased,
         walk(shape[i].f, GetProp(prevValue, shape[i].k), GetProp(nextValue, shape[i].k),
              joinPath(path, shape[i].k), aliased, acc))

walk(fieldDef, prevValue, nextValue, path, aliased, acc) ==
  IF prevValue = Undefined /\ nextValue = Undefined THEN acc
  ELSE IF prevValue = Undefined
    THEN [acc EXCEPT !.added = Append(@, [path |-> path, after |-> nextValue])]
  ELSE IF nextValue = Undefined
    THEN [acc EXCEPT !.removed = Append(@, [path |-> path, before |-> prevValue])]
  ELSE IF fieldDef.kind = "array"
    THEN WalkItems(IF prevValue.t = "array" THEN prevValue.a ELSE <<>>,
                   IF nextValue.t = "array" THEN nextValue.a ELSE <<>>,
                   path, 1, aliased, acc)
  ELSE IF fieldDef.kind = "object" /\ Truthy(prevValue) /\ Truthy(nextValue)
    THEN WalkShape(fieldDef.shape, prevValue, nextValue, path, 1, aliased, acc)
  ELSE IF ~deepEqual(prevValue, nextValue, aliased)
    THEN [acc EXCEPT !.changed =
            Append(@, [path |-> path, before |-> prevValue, after |-> nextValue])]
  ELSE acc

\* the loop over Object.entries(definition), from the i-th entry on
RECURSIVE DiffFrom(_, _, _, _, _, _)
DiffFrom(definition, previous, next, i, aliased, acc) ==
  IF i > Len(definition) THEN acc
  ELSE DiffFrom(definition, previous, next, i + 1, aliased,
         walk(definition[i].f, GetProp(previous, definition[i].k),
              GetProp(next, definition[i].k), definition[i].k, aliased, acc))

diffSchemaData(schema, previous, next, aliased) ==
  DiffFrom(schema.definition, previous, next, 1, aliased, NoChanges)

\* value?.[key]
OptionalGet(value, key) ==
  IF value.t \in {"undefined", "null"} THEN Undefined ELSE GetProp(value, key)

\* { ...value }
Spread(value) == Obj(Entries(value))

RECURSIVE mergeField(_, _, _, _)
RECURSIVE MergeShape(_, _, _, _, _, _)

\* the loop over Object.entries(fieldDef.shape), from the i-th entry on
MergeShape(shape, baseValue, updateValue, options, i, result) ==
  IF i > Len(shape) THEN result
  ELSE MergeShape(shape, baseValue, updateValue, options, i + 1,
         Set(result, shape[i].k,
             mergeField(shape[i].f, OptionalGet(baseValue, shape[i].k),
                        OptionalGet(updateValue, shape[i].k), options)))

\* variant of mergeField: a present update replaces an object field whole
mergeFieldShallow(fieldDef, baseValue, updateValue, options) ==
  IF updateValue = Undefined THEN baseValue
  ELSE IF fieldDef.kind = "array"
    THEN IF baseValue.t # "array" THEN updateValue
         ELSE IF updateValue.t # "array" THEN baseValue
         ELSE IF Has(options, "arrayStrategy") /\ options.arrayStrategy = "append"
           THEN Arr(baseValue.a \o updateValue.a)
         ELSE updateValue
  ELSE updateValue

\* variant of mergeField: append puts the update's elements first
mergeFieldPrepend(fieldDef, baseValue, updateValue, options) ==
  IF updateValue = Undefined THEN baseValue
  ELSE IF fieldDef.kind = "array"
    THEN IF baseValue.t # "array" THEN updateValue
         ELSE IF updateValue.t # "array" THEN baseValue
         ELSE IF Has(options, "arrayStrategy") /\ options.arrayStrategy = "append"
           THEN Arr(updateValue.a \o baseValue.a)
         ELSE updateValue
  ELSE IF fieldDef.kind = "object"
    THEN MergeShape(fieldDef.shape, baseValue, updateValue, options, 1,
                    IF Truthy(baseValue) /\ TypeOf(baseValue) = "object"
                      THEN Spread(baseValue) ELSE Obj(<<>>))
  ELSE updateValue

mergeField(fieldDef, baseValue, updateValue, options) ==
  IF updateValue = Undefined THEN baseValue
  ELSE IF fieldDef.kind = "array"
    THEN IF baseValue.t # "array" THEN updateValue
         ELSE IF updateValue.t # "array" THEN baseValue
         ELSE IF Has(options, "arrayStrategy") /\ options.arrayStrategy = "append"
           THEN Arr(baseValue.a \o updateValue.a)
         ELSE updateValue
  ELSE IF fieldDef.kind = "object"
    THEN MergeShape(fieldDef.shape, baseValue, updateValue, options, 1,
                    IF Truthy(baseValue) /\ TypeOf(baseValue) = "object"
                      THEN Spread(baseValue) ELSE Obj(<<>>))
  ELSE updateValue

\* the loop over Object.entries(definition), from the i-th entry on
RECURSIVE MergeFrom(_, _, _, _, _, _)
MergeFrom(definition, base, updates, options, i, result) ==
  IF i > Len(definition) THEN result
  ELSE MergeFrom(definition, base, updates, options, i + 1,
         Set(result, definition[i].k,
             mergeField(definition[i].f, GetProp(base, definition[i].k),
                        GetProp(updates, definition[i].k), options)))

mergeSchemaData(schema, base, updates, options) ==
  MergeFrom(schema.definition, base, updates, options, 1, Spread(base))

(***************************************************************************)
(* transform: strings, searchSchemaData, extractEntities,                  *)
(* collectMarkdownFields                                                   *)
(***************************************************************************)
LowerCase ==
  [c \in {"A", "B", "C", "D", "E", "F", "G", "H", "I", "J", "K", "L", "M", "N", "O",
          "P", "Q", "R", "S", "T", "U", "V", "W", "X", "Y", "Z"} |->
     CASE c = "A" -> "a" [] c = "B" -> "b" [] c = "C" -> "c" [] c = "D" -> "d"
       [] c = "E" -> "e" [] c = "F" -> "f" [] c = "G" -> "g" [] c = "H" -> "h"
       [] c = "I" -> "i" [] c = "J" -> "j" [] c = "K" -> "k" [] c = "L" -> "l"
       [] c = "M" -> "m" [] c = "N" -> "n" [] c = "O" -> "o" [] c = "P" -> "p"
       [] c = "Q" -> "q" [] c = "R" -> "r" [] c = "S" -> "s" [] c = "T" -> "t"
       [] c = "U" -> "u" [] c = "V" -> "v" [] c = "W" -> "w" [] c = "X" -> "x"
       [] c = "Y" -> "y" [] c = "Z" -> "z"]

CharAt(s, i) == SubSeq(s, i, i)

\* s.toLowerCase()
RECURSIVE LowerFrom(_, _)
LowerFrom(s, i) ==
  IF i > Len(s) THEN ""
  ELSE (IF CharAt(s, i) \in DOMAIN LowerCase THEN LowerCase[CharAt(s, i)] ELSE CharAt(s, i))
       \o LowerFrom(s, i + 1)

toLowerCase(s) == LowerFrom(s, 1)

\* the 0-based positions at which needle occurs in haystack
Occurrences(haystack, needle) ==
  {i \in 0..(Len(haystack) - Len(needle)) :
     SubSeq(haystack, i + 1, i + Len(needle)) = needle}

\* haystack.includes(needle)
includes(haystack, needle) == Occurrences(haystack, needle) # {}

\* haystack.indexOf(needle)
indexOf(haystack, needle) ==
  IF Occurrences(haystack, needle) = {} THEN -1
  ELSE CHOOSE i \in Occurrences(haystack, needle) :
         \A j \in Occurrences(haystack, needle) : i <= j

\* value.slice(start, end) for 0 <= start, end
slice(s, start, end) ==
  SubSeq(s, start + 1, IF end < Len(s) THEN end ELSE Len(s))

WhiteSpace == {" ", "\t", "\n", "\r"}

\* !query.trim(): nothing is left of the query once white space is trimmed
TrimsToEmpty(query) == \A i \in 1..Len(query) : CharAt(query, i) \in WhiteSpace

\* String(value)
RECURSIVE StringOf(_)
RECURSIVE JoinStrings(_, _)
JoinStrings(a, i) ==
  IF i > Len(a) THEN ""
  ELSE (IF i > 1 THEN "," ELSE "") \o
       (IF a[i].t \in {"undefined", "null"} THEN "" ELSE StringOf(a[i])) \o
       JoinStrings(a, i + 1)

StringOf(value) ==
  CASE value.t = "string" -> value.s
    [] value.t = "number" ->
         IF value.sp = "finite" THEN ToString(value.n) ELSE value.sp
    [] value.t = "boolean" -> IF value.b THEN "true" ELSE "false"
    [] value.t = "undefined" -> "undefined"
    [] value.t = "null" -> "null"
    [] value.t = "array" -> JoinStrings(value.a, 1)
    [] value.t = "object" -> "[object Object]"
    [] value.t = "date" ->
         \* Date.prototype.toString on a host whose time zone is UTC
         IF value.valid
           THEN "Thu Jan 01 1970 00:00:" \o Pad2((value.ms \div 1000) % 60) \o
                " GMT+0000 (Coordinated Universal Time)"
         ELSE "Invalid Date"

\* variant of containsMatch: the comparison is always case-sensitive
containsMatchExact(source, query, caseSensitive) == includes(source, query)

containsMatch(source, query, caseSensitive) ==
  IF ~caseSensitive THEN includes(toLowerCase(source), toLowerCase(query))
  ELSE includes(source, query)

\* stands for the single character U+2026
Ellipsis == "..."

ExcerptWidth == 30

ExcerptAround(value, query, index) ==
  LET start == IF index - ExcerptWidth > 0 THEN index - ExcerptWidth ELSE 0
      end == IF index + Len(query) + ExcerptWidth < Len(value)
               THEN index + Len(query) + ExcerptWidth ELSE Len(value)
  IN (IF start > 0 THEN Ellipsis ELSE "") \o slice(value, start, end) \o
     (IF end < Len(value) THEN Ellipsis ELSE "")

buildExcerpt(value, query, caseSensitive) ==
  LET haystack == IF caseSensitive THEN value ELSE toLowerCase(value)
      needle == IF caseSensitive THEN query ELSE toLowerCase(query)
  IN IF indexOf(haystack, needle) = -1 THEN slice(value, 0, 160)
     ELSE ExcerptAround(value, query, indexOf(haystack, needle))

\* options.caseSensitive ?? false
CaseSensitive(options) == Has(options, "caseSensitive") /\ options.caseSensitive

\* a leaf of a searched kind: one hit when its text contains the query
SearchLeaf(value, path, query, options, results) ==
  IF containsMatch(StringOf(value), query, CaseSensitive(options))
    THEN Append(results,
                [path |-> path, value |-> value,
                 excerpt |-> buildExcerpt(StringOf(value), query, CaseSensitive(options))])
  ELSE results

\* item && typeof item === 'object' ? item : {}
ChildOf(item) == IF Truthy(item) /\ TypeOf(item) = "object" THEN item ELSE Obj(<<>>)

RECURSIVE SearchVisit(_, _, _, _, _, _)
RECURSIVE SearchShape(_, _, _, _, _, _, _)
RECURSIVE SearchItems(_, _, _, _, _, _, _)

\* the loop over the entries of a nested definition, from the i-th on
SearchShape(shape, child, path, i, query, options, results) ==
  IF i > Len(shape) THEN results
  ELSE SearchShape(shape, child, path, i + 1, query, options,
         SearchVisit(shape[i].f, GetProp(child, shape[i].k), joinPath(path, shape[i].k),
                     query, options, results))

\* value.forEach over the items of an array, from index i - 1 on
SearchItems(itemDefinition, items, path, i, query, options, results) ==
  IF i > Len(items) THEN results
  ELSE SearchItems(itemDefinition, items, path, i + 1, query, options,
         SearchShape(itemDefinition, ChildOf(items[i]), joinPath(path, String(i - 1)), 1,
                     query, options, results))

SearchVisit(field, value, path, query, options, results) ==
  IF value = Undefined \/ value = Null THEN results
  ELSE IF field.kind \in {"text", "entity", "enum"}
    THEN SearchLeaf(value, path, query, options, results)
  ELSE IF field.kind = "markdown" /\ ~(Has(options, "matchMarkdown") /\ ~options.matchMarkdown)
    THEN SearchLeaf(value, path, query, options, results)
  ELSE IF field.kind = "array" /\ value.t = "array"
    THEN SearchItems(field.itemDefinition, value.a, path, 1, query, options, results)
  ELSE IF field.kind = "object" /\ TypeOf(value) = "object" /\ Truthy(value)
    THEN SearchShape(field.shape, value, path, 1, query, options, results)
  ELSE results

\* options.limit is set and not 0
HasLimit(options) == Has(options, "limit") /\ options.limit # 0

\* the loop over the root fields, left once the limit is reached
RECURSIVE SearchFrom(_, _, _, _, _, _)
SearchFrom(definition, data, i, query, options, results) ==
  IF i > Len(definition) THEN results
  ELSE IF i > 1 /\ HasLimit(options) /\ Len(results) >= options.limit THEN results
  ELSE SearchFrom(definition, data, i + 1, query, options,
         SearchVisit(definition[i].f, GetProp(data, definition[i].k), definition[i].k,
                     query, options, results))

\* results.slice(0, options.limit)
Limited(options, results) ==
  IF HasLimit(options) THEN SubSeq(results, 1, IF options.limit < Len(results)
                                                THEN options.limit ELSE Len(results))
  ELSE results

searchSchemaData(schema, data, query, options) ==
  IF TrimsToEmpty(query) THEN <<>>
  ELSE Limited(options, SearchFrom(schema.definition, data, 1, query, options, <<>>))

\* variant of EntityLeaf: the filter type is ignored
EntityLeafUnfiltered(field, value, path, filterType, results) ==
  Append(results, [path |-> path, value |-> StringOf(value), type |-> field.entityType])

\* an entity leaf: one record unless a filter type is given and differs
EntityLeaf(field, value, path, filterType, results) ==
  IF ~Truthy(filterType) \/ Str(field.entityType) = filterType
    THEN Append(results,
                [path |-> path, value |-> StringOf(value), type |-> field.entityType])
  ELSE results

RECURSIVE EntityVisit(_, _, _, _, _)
RECURSIVE EntityShape(_, _, _, _, _, _)
RECURSIVE EntityItems(_, _, _, _, _, _)

EntityShape(shape, child, path, i, filterType, results) ==
  IF i > Len(shape) THEN results
  ELSE EntityShape(shape, child, path, i + 1, filterType,
         EntityVisit(shape[i].f, GetProp(child, shape[i].k), joinPath(path, shape[i].k),
                     filterType, results))

EntityItems(itemDefinition, items, path, i, filterType, results) ==
  IF i > Len(items) THEN results
  ELSE EntityItems(itemDefinition, items, path, i + 1, filterType,
         EntityShape(itemDefinition, ChildOf(items[i]), joinPath(path, String(i - 1)), 1,
                     filterType, results))

EntityVisit(field, value, path, filterType, results) ==
  IF value = Undefined \/ value = Null THEN results
  ELSE IF field.kind = "entity" THEN EntityLeaf(field, value, path, filterType, results)
  ELSE IF field.kind = "array" /\ value.t = "array"
    THEN EntityItems(field.itemDefinition, value.a, path, 1, filterType, results)
  ELSE IF field.kind = "object" /\ Truthy(value) /\ TypeOf(value) = "object"
    THEN EntityShape(field.shape, value, path, 1, filterType, results)
  ELSE results

extractEntities(schema, data, filterType) ==
  EntityShape(schema.definition, data, "", 1, filterType, <<>>)

RECURSIVE MarkdownVisit(_, _, _, _)
RECURSIVE MarkdownShape(_, _, _, _, _)
RECURSIVE MarkdownItems(_, _, _, _, _)

MarkdownShape(shape, child, path, i, records) ==
  IF i > Len(shape) THEN records
  ELSE MarkdownShape(shape, child, path, i + 1,
         MarkdownVisit(shape[i].f, GetProp(child, shape[i].k), joinPath(path, shape[i].k),
                       records))

MarkdownItems(itemDefinition, items, path, i, records) ==
  IF i > Len(items) THEN records
  ELSE MarkdownItems(itemDefinition, items, path, i + 1,
         MarkdownShape(itemDefinition, ChildOf(items[i]), joinPath(path, String(i - 1)), 1,
                       records))

MarkdownVisit(field, value, path, records) ==
  IF value = Undefined \/ value = Null THEN records
  ELSE IF field.kind = "markdown"
    THEN Append(records, [path |-> path, value |-> StringOf(value), field |-> field])
  ELSE IF field.kind = "array" /\ value.t = "array"
    THEN MarkdownItems(field.itemDefinition, value.a, path, 1, records)
  ELSE IF field.kind = "object" /\ Truthy(value) /\ TypeOf(value) = "object"
    THEN MarkdownShape(field.shape, value, path, 1, records)
  ELSE records

collectMarkdownFields(schema, data) ==
  MarkdownShape(schema.definition, data, "", 1, <<>>)

(***************************************************************************)
(* The state machine: a schema handle is defined once; a caller then       *)
(* invokes one of its operations on arguments drawn from the sets below.   *)
(***************************************************************************)
VARIABLES schema, op, args, result, hook
vars == <<schema, op, args, result, hook>>

\* the options a handle is defined with: strict left out, or strict: true
SchemaOptionChoices == {[name |-> "Model"], [name |-> "Model", strict |-> TRUE]}

\* the index of the handle's definition in Schemas
SchemaIndex(h) == CHOOSE s \in 1..Len(Schemas) : Schemas[s].definition = h.definition

\* what safeParse accepts at the root
RootInputs(s) ==
  ObjectInputs(s) \cup BadRoots \cup {Str(JSONstringify(d)) : d \in DeclaredInputs(s)}

\* data instances of a schema: the data of every successful parse
DataInstances(s) ==
  LET h == defineSchema(Schemas[s].definition, [name |-> "Model"])
      parsed == {safeParse(h, d) : d \in DeclaredInputs(s)}
  IN {r.data : r \in {q \in parsed : ~IsThrown(q) /\ q.success}}

\* the entries of o at the positions in S, in order
RECURSIVE Restrict(_, _, _)
Restrict(o, S, i) ==
  IF i > Len(o) THEN <<>>
  ELSE (IF i \in S THEN <<o[i]>> ELSE <<>>) \o Restrict(o, S, i + 1)

\* partial updates: every selection of the keys of every data instance
Updates(s) ==
  UNION {{Obj(Restrict(x.o, S, 1)) : S \in SUBSET (1..Len(x.o))} : x \in DataInstances(s)}

MergeOptionChoices ==
  {[preferNewArrays |-> FALSE], [arrayStrategy |-> "replace"], [arrayStrategy |-> "append"]}

\* the data handed to diff, merge, search, getEntities and getMarkdownFields:
\* data instances, and objects that do not satisfy the schema
TransformData(s) == DataInstances(s) \cup Schemas[s].malformed

Queries == {"a", "Al", "1", " ", ""}

MaxLimit == 2

\* the options search is called with: none that matters, caseSensitive,
\* matchMarkdown: false, or a limit
SearchOptionChoices ==
  {[matchMarkdown |-> TRUE], [caseSensitive |-> TRUE], [matchMarkdown |-> FALSE]}
    \cup {[limit |-> l] : l \in 0..MaxLimit}

\* the type getEntities is called with: left out, or a string
EntityTypeChoices == {Undefined, Str("person"), Str("team"), Str("")}

NoArgs == [none |-> TRUE]

\* the state of a component that does not use the hook
NoHook == [none |-> TRUE]

Init ==
  /\ \E s \in 1..Len(Schemas), o \in SchemaOptionChoices :
       schema = defineSchema(Schemas[s].definition, o)
  /\ op = "idle"
  /\ args = NoArgs
  /\ result = NoArgs
  /\ hook = NoHook

SafeParse(input) ==
  /\ op = "idle"
  /\ op' = "safeParse"
  /\ args' = [input |-> input]
  /\ result' = safeParse(schema, input)
  /\ schema' = SchemaAfterParse(schema, input)
  /\ UNCHANGED hook

Parse(input) ==
  /\ op = "idle"
  /\ op' = "parse"
  /\ args' = [input |-> input]
  /\ result' = parse(schema, input)
  /\ schema' = SchemaAfterParse(schema, input)
  /\ UNCHANGED hook

Diff(previous, next, aliased) ==
  /\ op = "idle"
  /\ op' = "diff"
  /\ args' = [previous |-> previous, next |-> next, aliased |-> aliased]
  /\ result' = diffSchemaData(schema, previous, next, aliased)
  /\ UNCHANGED <<schema, hook>>

Merge(base, updates, options) ==
  /\ op = "idle"
  /\ op' = "merge"
  /\ args' = [base |-> base, updates |-> updates, options |-> options]
  /\ result' = mergeSchemaData(schema, base, updates, options)
  /\ UNCHANGED <<schema, hook>>

Search(data, query, options) ==
  /\ op = "idle"
  /\ op' = "search"
  /\ args' = [data |-> data, query |-> query, options |-> options]
  /\ result' = searchSchemaData(schema, data, query, options)
  /\ UNCHANGED <<schema, hook>>

GetEntities(data, type) ==
  /\ op = "idle"
  /\ op' = "getEntities"
  /\ args' = [data |-> data, type |-> type]
  /\ result' = extractEntities(schema, data, type)
  /\ UNCHANGED <<schema, hook>>

GetMarkdownFields(data) ==
  /\ op = "idle"
  /\ op' = "getMarkdownFields"
  /\ args' = [data |-> data]
  /\ result' = collectMarkdownFields(schema, data)
  /\ UNCHANGED <<schema, hook>>

Next ==
  \/ op = "idle" /\ \E input \in RootInputs(SchemaIndex(schema)) : SafeParse(input)
  \/ op = "idle" /\ \E input \in RootInputs(SchemaIndex(schema)) : Parse(input)
  \/ op = "idle" /\ \E previous \in TransformData(SchemaIndex(schema)),
        next \in TransformData(SchemaIndex(schema)),
        aliased \in BOOLEAN :
       (aliased => previous = next) /\ Diff(previous, next, aliased)
  \/ op = "idle" /\ \E base \in TransformData(SchemaIndex(schema)),
        updates \in Updates(SchemaIndex(schema)) \cup Schemas[SchemaIndex(schema)].malformed,
        options \in MergeOptionChoices :
       Merge(base, updates, options)
  \/ op = "idle" /\ \E data \in TransformData(SchemaIndex(schema)),
        query \in Queries, options \in SearchOptionChoices :
       Search(data, query, options)
  \/ op = "idle" /\ \E data \in TransformData(SchemaIndex(schema)),
        type \in EntityTypeChoices :
       GetEntities(data, type)
  \/ op = "idle" /\ \E data \in TransformData(SchemaIndex(schema)) :
       GetMarkdownFields(data)

Spec == Init /\ [][Next]_vars

(***************************************************************************)
(* Calls in sequence: a schema whose text field carries a pattern, and a   *)
(* caller that invokes the field's parse and the handle's operations one   *)
(* after another.  The schema variable holds the handle as it is after the *)
(* calls made so far, the lastIndex of its pattern included.               *)
(***************************************************************************)
PatternFlags == {"", "g", "y"}

CodedDefinition(flags) ==
  <<F("code", text([pattern |-> RegExp("a", flags), minLength |-> 1])),
    F("note", md([optional |-> TRUE]))>>

\* the values handed to a field's parse
CodedValues == {Str("a"), Str("ba"), Str("aa"), Str("b"), Str(""), Num(1)}

\* the objects handed to the operations of the handle
CodedData ==
  {Obj(<<P("code", Str("a"))>>), Obj(<<P("code", Str("ba"))>>),
   Obj(<<P("code", Str("b"))>>), Obj(<<P("code", Str("aa")), P("note", Str("a"))>>)}

CallsInit ==
  /\ \E flags \in PatternFlags :
       schema = defineSchema(CodedDefinition(flags), [name |-> "Coded"])
  /\ op = "idle"
  /\ args = NoArgs
  /\ result = NoArgs
  /\ hook = NoHook

\* schema.getDefinition()[key].parse(value, { path: [key] })
CallFieldParse(i, value) ==
  /\ op' = "field.parse"
  /\ args' = [key |-> schema.definition[i].k, value |-> value,
              path |-> <<schema.definition[i].k>>]
  /\ result' = FieldParse(schema.definition[i].f, value, <<schema.definition[i].k>>)
  /\ schema' = [schema EXCEPT !.definition[i].f = FieldAfterParse(@, value)]
  /\ UNCHANGED hook

CallSafeParse(input) ==
  /\ op' = "safeParse"
  /\ args' = [input |-> input]
  /\ result' = safeParse(schema, input)
  /\ schema' = SchemaAfterParse(schema, input)
  /\ UNCHANGED hook

CallParse(input) ==
  /\ op' = "parse"
  /\ args' = [input |-> input]
  /\ result' = parse(schema, input)
  /\ schema' = SchemaAfterParse(schema, input)
  /\ UNCHANGED hook

CallDiff(previous, next) ==
  /\ op' = "diff"
  /\ args' = [previous |-> previous, next |-> next, aliased |-> FALSE]
  /\ result' = diffSchemaData(schema, previous, next, FALSE)
  /\ UNCHANGED <<schema, hook>>

CallMerge(base, updates, options) ==
  /\ op' = "merge"
  /\ args' = [base |-> base, updates |-> updates, options |-> options]
  /\ result' = mergeSchemaData(schema, base, updates, options)
  /\ UNCHANGED <<schema, hook>>

CallSearch(data, query) ==
  /\ op' = "search"
  /\ args' = [data |-> data, query |-> query, options |-> [matchMarkdown |-> TRUE]]
  /\ result' = searchSchemaData(schema, data, query, [matchMarkdown |-> TRUE])
  /\ UNCHANGED <<schema, hook>>

CallGetEntities(data) ==
  /\ op' = "getEntities"
  /\ args' = [data |-> data, type |-> Undefined]
  /\ result' = extractEntities(schema, data, Undefined)
  /\ UNCHANGED <<schema, hook>>

CallGetMarkdownFields(data) ==
  /\ op' = "getMarkdownFields"
  /\ args' = [data |-> data]
  /\ result' = collectMarkdownFields(schema, data)
  /\ UNCHANGED <<schema, hook>>

CallsNext ==
  \/ \E i \in 1..Len(schema.definition), value \in CodedValues : CallFieldParse(i, value)
  \/ \E input \in CodedData : CallSafeParse(input)
  \/ \E input \in CodedData : CallParse(input)
  \/ \E previous \in CodedData, next \in CodedData : CallDiff(previous, next)
  \/ \E base \in CodedData, updates \in CodedData :
       CallMerge(base, updates, [arrayStrategy |-> "append"])
  \/ \E data \in CodedData : CallSearch(data, "a")
  \/ \E data \in CodedData : CallGetEntities(data)
  \/ \E data \in CodedData : CallGetMarkdownFields(data)

CallsSpec == CallsInit /\ [][CallsNext]_vars

(***************************************************************************)
(* useSchemaData: the two state cells of the hook, data and issues, as     *)
(* committed by the last render, and the updates queued since.  setData    *)
(* and validate are the callbacks of the last render: validate reads the   *)
(* data of that render.  The updater that setData hands to setDataState    *)
(* calls setIssues when React runs it, at the call or during the next      *)
(* render.                                                                 *)
(***************************************************************************)
HookDefinition ==
  <<F("title", text([minLength |-> 1])),
    F("count", number([optional |-> TRUE, min |-> 0]))>>

HookData ==
  {Obj(<<P("title", Str("A"))>>),
   Obj(<<P("title", Str("B")), P("count", Num(1))>>),
   Obj(<<P("title", Str(""))>>),
   Obj(<<P("count", Num(-1))>>)}

\* the updates one render may find queued
MaxPending == 2

\* validation.success ? [] : validation.issues
IssuesToSet(validation) == IF validation.success THEN <<>> ELSE validation.issues

\* issues.length === 0
isValid(h) == Len(h.issues) = 0

HookInit ==
  /\ schema = defineSchema(HookDefinition, [name |-> "Hook"])
  /\ op = "idle"
  /\ args = NoArgs
  /\ result = NoArgs
  /\ \E initial \in HookData :
       hook = [data |-> initial, issues |-> <<>>, dataUpdates |-> <<>>,
               issueUpdates |-> <<>>, lastSet |-> initial, pending |-> 0, batch |-> 0]

\* setData(next): the updater is queued on the data cell; if React runs it
\* at once, its setIssues call is queued now
SetData(next, now) ==
  /\ hook.pending < MaxPending
  /\ op' = "setData"
  /\ args' = [next |-> next]
  /\ result' = NoArgs
  /\ hook' = [hook EXCEPT
       !.dataUpdates = Append(@, [next |-> next, ran |-> now]),
       !.issueUpdates = IF now THEN Append(@, IssuesToSet(safeParse(schema, next)))
                        ELSE @,
       !.lastSet = next,
       !.pending = @ + 1]
  /\ UNCHANGED schema

\* validate(): safeParse of the data this render holds, setIssues, return
Validate ==
  /\ hook.pending < MaxPending
  /\ op' = "validate"
  /\ args' = NoArgs
  /\ result' = safeParse(schema, hook.data)
  /\ hook' = [hook EXCEPT
       !.issueUpdates = Append(@, IssuesToSet(safeParse(schema, hook.data))),
       !.pending = @ + 1]
  /\ UNCHANGED schema

\* the setIssues calls of the updaters that run during the render, in order
RECURSIVE DeferredIssues(_, _)
DeferredIssues(h, updates) ==
  IF updates = <<>> THEN <<>>
  ELSE (IF updates[1].ran THEN <<>>
        ELSE <<IssuesToSet(safeParse(h, updates[1].next))>>)
         \o DeferredIssues(h, Tail(updates))

LastOr(queue, current) == IF queue = <<>> THEN current ELSE queue[Len(queue)]

\* the next render: both cells take the last value queued for them
Render ==
  /\ hook.pending > 0
  /\ op' = "render"
  /\ args' = NoArgs
  /\ result' = NoArgs
  /\ hook' = [hook EXCEPT
       !.data = IF hook.dataUpdates = <<>> THEN @
                ELSE hook.dataUpdates[Len(hook.dataUpdates)].next,
       !.issues = LastOr(hook.issueUpdates \o DeferredIssues(schema, hook.dataUpdates), @),
       !.dataUpdates = <<>>,
       !.issueUpdates = <<>>,
       !.pending = 0,
       !.batch = hook.pending]
  /\ UNCHANGED schema

HookNext ==
  \/ \E next \in HookData, now \in BOOLEAN : SetData(next, now)
  \/ Validate
  \/ Render

HookSpec == HookInit /\ [][HookNext]_vars

(***************************************************************************)
(* Properties                                                              *)
(***************************************************************************)
IssuesOf(r) == IF r.success THEN <<>> ELSE r.issues

IsPrefix(p, q) == Len(p) <= Len(q) /\ SubSeq(q, 1, Len(p)) = p

\* the issues located at path p or below it, in order
Under(issues, p) == SelectSeq(issues, LAMBDA x : IsPrefix(p, x.path))

Absent(v) == v = Undefined \/ v = Null

\* a safeParse call on a keyed object has returned
ParsedObject == op = "safeParse" /\ args.input.t = "object" /\ ~IsThrown(result)

\* what one field reports when looked at on its own
AloneIssues(field, raw, fieldPath) ==
  IF Absent(raw)
    THEN IF field.optional THEN <<>>
         ELSE <<issue(fieldPath, "Field is required", "required", Undefined, Undefined)>>
  ELSE IssuesOf(FieldParse(field, raw, fieldPath))

RECURSIVE Collected(_, _, _, _)
Collected(definition, value, path, issues) ==
  \A i \in 1..Len(definition) :
    LET f == definition[i].f
        raw == Get(value, definition[i].k)
        fp == Append(path, definition[i].k)
    IN /\ Under(issues, fp) = AloneIssues(f, raw, fp)
       /\ (f.kind = "object" /\ raw.t = "object") => Collected(f.shape, raw, fp, issues)
       /\ (f.kind = "array" /\ raw.t = "array") =>
            \A j \in 1..Len(raw.a) :
              LET ep == Append(fp, ToString(j - 1)) IN
              /\ Under(issues, ep) =
                   IssuesOf(parseDefinition(f.itemDefinition, raw.a[j], ep,
                                            DefaultParseOptions))
              /\ raw.a[j].t = "object" =>
                   Collected(f.itemDefinition, raw.a[j], ep, issues)

\* C1: one safeParse call reports, for every field, array element and nested
\* object field, exactly the issues that field produces on its own; the
\* failure of one field never suppresses the issues of a sibling.
C1_CollectAllIssues ==
  ParsedObject => Collected(schema.definition, args.input, <<>>, IssuesOf(result))

\* two different declared fields of one input both have issues in the result
C1_Witness ==
  /\ ParsedObject
  /\ ~result.success
  /\ \E i, j \in 1..Len(result.issues) :
       /\ result.issues[i].path # <<>> /\ result.issues[j].path # <<>>
       /\ result.issues[i].path[1] # result.issues[j].path[1]
       /\ \E a, b \in 1..Len(schema.definition) :
            /\ schema.definition[a].k = result.issues[i].path[1]
            /\ schema.definition[b].k = result.issues[j].path[1]

\* the paths of the non-optional fields whose raw value is undefined or null,
\* at the root, inside object fields and inside array items
RECURSIVE RequiredMissing(_, _, _)
RequiredMissing(definition, value, path) ==
  UNION {
    LET f == definition[i].f
        raw == Get(value, definition[i].k)
        fp == Append(path, definition[i].k)
    IN IF Absent(raw) THEN (IF f.optional THEN {} ELSE {fp})
       ELSE IF f.kind = "object" /\ raw.t = "object"
         THEN RequiredMissing(f.shape, raw, fp)
       ELSE IF f.kind = "array" /\ raw.t = "array"
         THEN UNION {IF raw.a[j].t = "object"
                       THEN RequiredMissing(f.itemDefinition, raw.a[j],
                                            Append(fp, ToString(j - 1)))
                       ELSE {} : j \in 1..Len(raw.a)}
       ELSE {}
    : i \in 1..Len(definition)}

\* C2: a non-optional field whose raw value is undefined or null makes
\* safeParse fail with exactly one issue at that field's path, of code
\* required, and no issue below it; null counts as missing.
C2_RequiredIssue ==
  ParsedObject =>
    \A p \in RequiredMissing(schema.definition, args.input, <<>>) :
      /\ ~result.success
      /\ Len(Under(result.issues, p)) = 1
      /\ Under(result.issues, p)[1].path = p
      /\ Under(result.issues, p)[1].code = "required"

\* a required field given as null, and one left out, in a parsed input
C2_Witness ==
  /\ ParsedObject
  /\ \E i \in 1..Len(schema.definition) :
       /\ ~schema.definition[i].f.optional
       /\ HasOwn(args.input, schema.definition[i].k)
       /\ Get(args.input, schema.definition[i].k) = Null
  /\ Cardinality(RequiredMissing(schema.definition, args.input, <<>>)) >= 2

KeySet(o) == {o.o[i].k : i \in 1..Len(o.o)}

DeclaredKeys(definition) == {definition[i].k : i \in 1..Len(definition)}

FieldAt(definition, key) ==
  definition[CHOOSE i \in 1..Len(definition) : definition[i].k = key].f

WithinLength(opts, n) ==
  /\ Has(opts, "minLength") => n >= opts.minLength
  /\ Has(opts, "maxLength") => n <= opts.maxLength

\* a value that satisfies the rules the specification gives for its field kind
RECURSIVE WellFormedValue(_, _)
RECURSIVE WellFormedObject(_, _)
WellFormedValue(f, v) ==
  CASE f.kind = "text" ->
         /\ v.t = "string" /\ WithinLength(f.options, Len(v.s))
         /\ Has(f.options, "pattern") =>
              \E n \in 0..Len(v.s) : MatchAt(v.s, f.options.pattern.source, n)
    [] f.kind = "markdown" -> v.t = "string" /\ WithinLength(f.options, Len(v.s))
    [] f.kind = "number" ->
         /\ v.t = "number" /\ v.sp = "finite"
         /\ Has(f.options, "min") => v.n >= f.options.min
         /\ Has(f.options, "max") => v.n <= f.options.max
    [] f.kind = "boolean" -> v.t = "boolean"
    [] f.kind = "date" ->
         \/ v.t = "date" /\ v.valid
         \/ v.t = "string" /\ v.s \in DOMAIN IsoTimestamps
         \/ v.t = "number" /\ v.sp = "finite"
    [] f.kind = "enum" ->
         v.t = "string" /\ \E i \in 1..Len(f.values) : f.values[i] = v.s
    [] f.kind = "entity" -> v.t = "string"
    [] f.kind = "array" ->
         /\ v.t = "array"
         /\ Has(f.options, "minItems") => Len(v.a) >= f.options.minItems
         /\ Has(f.options, "maxItems") => Len(v.a) <= f.options.maxItems
         /\ \A j \in 1..Len(v.a) : WellFormedObject(f.itemDefinition, v.a[j])
    [] f.kind = "object" -> WellFormedObject(f.shape, v)

WellFormedObject(definition, v) ==
  /\ v.t = "object"
  /\ \A i \in 1..Len(definition) :
       IF Absent(Get(v, definition[i].k)) THEN definition[i].f.optional
       ELSE WellFormedValue(definition[i].f, Get(v, definition[i].k))

\* the keys the output is to hold for a well-formed input, with the defaults
\* in place, at this level and below
RECURSIVE KeysAsStated(_, _, _)
KeysAsStated(definition, input, output) ==
  /\ output.t = "object"
  /\ Len(output.o) = Cardinality(KeySet(output))
  /\ KeySet(output) =
       {k \in DeclaredKeys(definition) :
          \/ ~Absent(Get(input, k))
          \/ FieldAt(definition, k).optional /\ Has(FieldAt(definition, k).options, "default")}
  /\ \A k \in DeclaredKeys(definition) :
       LET f == FieldAt(definition, k)
           raw == Get(input, k)
           out == Get(output, k)
       IN IF Absent(raw)
            THEN (f.optional /\ Has(f.options, "default") /\ f.kind # "date")
                   => out = f.options["default"]
          ELSE IF f.kind = "object" THEN KeysAsStated(f.shape, raw, out)
          ELSE IF f.kind = "array"
            THEN /\ out.t = "array" /\ Len(out.a) = Len(raw.a)
                 /\ \A j \in 1..Len(raw.a) :
                      KeysAsStated(f.itemDefinition, raw.a[j], out.a[j])
          ELSE TRUE

UndeclaredKeys(definition, input) == KeySet(input) \ DeclaredKeys(definition)

WellFormedInput ==
  /\ ParsedObject
  /\ WellFormedObject(schema.definition, args.input)
  /\ schema.options.strict => UndeclaredKeys(schema.definition, args.input) = {}

\* C3: for a well-formed input safeParse succeeds and, at every depth, the
\* output holds exactly the declared keys that are present in the input plus
\* the absent optional keys with a configured default, carrying that default;
\* absent optional keys without default and undeclared keys do not appear.
C3_OutputKeys ==
  WellFormedInput =>
    /\ result.success
    /\ KeysAsStated(schema.definition, args.input, result.data)

NotDecodable == {"not json", "", "{"}

DecodesToNonObject == {"12", "null", "true", "[]", "\"A\""}

OneRootIssue(code) ==
  /\ ~IsThrown(result)
  /\ ~result.success
  /\ Len(result.issues) = 1
  /\ result.issues[1].path = <<>>
  /\ result.issues[1].code = code

\* C4: safeParse never throws for bad root input: a string that is not JSON
\* gives exactly one issue at the empty path with code invalid_format; an
\* input that is not a keyed object after decoding gives exactly one issue at
\* the empty path with code invalid_type.
C4_BadRootInput ==
  op = "safeParse" =>
    /\ (args.input.t = "string" /\ args.input.s \in NotDecodable)
         => OneRootIssue("invalid_format")
    /\ (\/ args.input.t \in {"number", "boolean", "undefined", "null", "array"}
        \/ args.input.t = "string" /\ args.input.s \in DecodesToNonObject)
         => OneRootIssue("invalid_type")

\* an array handed to a schema as root input has been rejected
C4_Witness ==
  /\ op = "safeParse"
  /\ args.input.t = "array"
  /\ OneRootIssue("invalid_type")

\* C5: parse returns exactly the data of safeParse when safeParse succeeds,
\* and otherwise throws a SchemaError carrying the whole issue list of
\* safeParse in the same order; it throws exactly when safeParse fails.
C5_ParseAgreesWithSafeParse ==
  (op = "parse" /\ ~IsThrown(safeParse(schema, args.input))) =>
    IF safeParse(schema, args.input).success
      THEN result = [returned |-> TRUE, value |-> safeParse(schema, args.input).data]
    ELSE /\ IsThrown(result)
         /\ result.name = "SchemaError"
         /\ result.issues = safeParse(schema, args.input).issues

\* parse has thrown a SchemaError that carries more than one issue
C5_Witness ==
  /\ op = "parse"
  /\ IsThrown(result)
  /\ result.name = "SchemaError"
  /\ Len(result.issues) >= 2

IssuesAt(issues, p) == SelectSeq(issues, LAMBDA x : x.path = p)

\* C6: under strict mode every key of the root input that the definition does
\* not declare gets one issue of code invalid_type at that key's path and the
\* parse fails; with strict mode off such keys produce no issue.
C6_StrictUnknownKeys ==
  ParsedObject =>
    \A key \in UndeclaredKeys(schema.definition, args.input) :
      IF schema.options.strict
        THEN /\ ~result.success
             /\ Len(IssuesAt(result.issues, <<key>>)) = 1
             /\ IssuesAt(result.issues, <<key>>)[1].code = "invalid_type"
      ELSE IssuesAt(IssuesOf(result), <<key>>) = <<>>

RECURSIVE HasDateField(_)
HasDateField(definition) ==
  \E i \in 1..Len(definition) :
    \/ definition[i].f.kind = "date"
    \/ definition[i].f.kind = "object" /\ HasDateField(definition[i].f.shape)
    \/ definition[i].f.kind = "array" /\ HasDateField(definition[i].f.itemDefinition)

\* deep equality of two values, whatever the order of their keys
RECURSIVE DeepEq(_, _)
DeepEq(a, b) ==
  IF a.t = "object" /\ b.t = "object"
    THEN /\ KeySet(a) = KeySet(b)
         /\ \A k \in KeySet(a) : DeepEq(Get(a, k), Get(b, k))
  ELSE IF a.t = "array" /\ b.t = "array"
    THEN /\ Len(a.a) = Len(b.a)
         /\ \A i \in 1..Len(a.a) : DeepEq(a.a[i], b.a[i])
  ELSE a = b

SameAsParsed(again, data) == again.success /\ DeepEq(again.data, data)

\* C7: for a schema without date fields and a data object d that safeParse
\* accepts, safeParse(JSON.stringify(d)) succeeds and its data is deep-equal
\* to the data of safeParse(d).
C7_JsonRoundTrip ==
  (ParsedObject /\ ~HasDateField(schema.definition) /\ result.success) =>
    SameAsParsed(safeParse(schema, Str(JSONstringify(args.input))), result.data)

\* C8: merging an empty update yields an object with exactly the keys and
\* values of base; no key that base lacks is introduced.
C8_MergeEmptyUpdate ==
  (op = "merge" /\ args.updates = Obj(<<>>)) =>
    /\ result.t = "object"
    /\ Len(result.o) = Cardinality(KeySet(result))
    /\ DeepEq(result, args.base)

\* C9: the diff of a data instance with itself, whether the same object or an
\* equal copy, has empty added, removed and changed lists.
C9_DiffSelfEmpty ==
  (op = "diff" /\ args.previous = args.next) => result = NoChanges

\* an instance that holds a date and omits an optional field has been
\* compared with an equal copy of itself
C9_Witness ==
  /\ op = "diff"
  /\ args.previous = args.next
  /\ ~args.aliased
  /\ \E i \in 1..Len(args.previous.o) : args.previous.o[i].v.t = "date"
  /\ KeySet(args.previous) # DeclaredKeys(schema.definition)

DottedPath(parent, key) == IF parent = "" THEN key ELSE parent \o "." \o key

EntriesAt(entries, p) == SelectSeq(entries, LAMBDA x : x.path = p)

\* leaf values are deep-equal: Dates by timestamp, anything else by value
LeafEqual(a, b) ==
  IF a.t = "date" /\ b.t = "date" THEN a.ms = b.ms ELSE a = b

OnlyIn(d, list, p, entry) ==
  /\ EntriesAt(d.added, p) = (IF list = "added" THEN <<entry>> ELSE <<>>)
  /\ EntriesAt(d.removed, p) = (IF list = "removed" THEN <<entry>> ELSE <<>>)
  /\ EntriesAt(d.changed, p) = (IF list = "changed" THEN <<entry>> ELSE <<>>)

RECURSIVE Classified(_, _, _, _, _)
Classified(definition, previous, next, path, d) ==
  \A i \in 1..Len(definition) :
    LET f == definition[i].f
        p == DottedPath(path, definition[i].k)
        before == Get(previous, definition[i].k)
        after == Get(next, definition[i].k)
    IN IF before = Undefined /\ after = Undefined THEN OnlyIn(d, "none", p, Undefined)
       ELSE IF before = Undefined
         THEN OnlyIn(d, "added", p, [path |-> p, after |-> after])
       ELSE IF after = Undefined
         THEN OnlyIn(d, "removed", p, [path |-> p, before |-> before])
       ELSE IF f.kind = "object" THEN Classified(f.shape, before, after, p, d)
       ELSE IF f.kind = "array" THEN TRUE
       ELSE IF LeafEqual(before, after) THEN OnlyIn(d, "none", p, Undefined)
       ELSE OnlyIn(d, "changed", p, [path |-> p, before |-> before, after |-> after])

PathsOf(entries) == {entries[i].path : i \in 1..Len(entries)}

\* both arguments of a diff call satisfy the schema
DiffOnDataInstances ==
  /\ args.previous \notin Schemas[SchemaIndex(schema)].malformed
  /\ args.next \notin Schemas[SchemaIndex(schema)].malformed

\* C10: a field reached at the root or through object fields that is absent
\* before and present after gives exactly one added entry {path, after};
\* present before and absent after, exactly one removed entry {path, before};
\* a leaf present in both gives one changed entry {path, before, after}
\* exactly when its values are not deep-equal; the three lists share no path.
\* The two arguments are data instances of the schema.
C10_DiffClassification ==
  (op = "diff" /\ DiffOnDataInstances) =>
    /\ Classified(schema.definition, args.previous, args.next, "", result)
    /\ PathsOf(result.added) \cap PathsOf(result.removed) = {}
    /\ PathsOf(result.added) \cap PathsOf(result.changed) = {}
    /\ PathsOf(result.removed) \cap PathsOf(result.changed) = {}

\* one diff has reported a nested field as added and a leaf as changed
C10_Witness ==
  /\ op = "diff"
  /\ DiffOnDataInstances
  /\ \E i \in 1..Len(result.added) :
       result.added[i].path \notin DeclaredKeys(schema.definition)
  /\ Len(result.changed) > 0

\* every index below the longer length of two arrays is classified on its own
ItemsByIndex(prevArray, nextArray, path, d) ==
  \A i \in 1..(IF Len(prevArray) > Len(nextArray) THEN Len(prevArray) ELSE Len(nextArray)) :
    LET p == path \o "." \o ToString(i - 1) IN
    IF i > Len(prevArray) THEN OnlyIn(d, "added", p, [path |-> p, after |-> nextArray[i]])
    ELSE IF i > Len(nextArray)
      THEN OnlyIn(d, "removed", p, [path |-> p, before |-> prevArray[i]])
    ELSE IF DeepEq(prevArray[i], nextArray[i]) THEN OnlyIn(d, "none", p, Undefined)
    ELSE OnlyIn(d, "changed", p,
                [path |-> p, before |-> prevArray[i], after |-> nextArray[i]])

\* next holds the elements of previous, pairwise distinct, in another order
IsPermutation(prevArray, nextArray) ==
  /\ Len(prevArray) = Len(nextArray)
  /\ \A i, j \in 1..Len(prevArray) : i # j => ~DeepEq(prevArray[i], prevArray[j])
  /\ \A i \in 1..Len(prevArray) : \E j \in 1..Len(nextArray) : DeepEq(prevArray[i], nextArray[j])

MovedIndices(prevArray, nextArray) ==
  {i \in 1..Len(prevArray) : ~DeepEq(prevArray[i], nextArray[i])}

PathsUnder(entries, path) ==
  {i \in 1..Len(entries) :
     /\ Len(entries[i].path) > Len(path)
     /\ SubSeq(entries[i].path, 1, Len(path) + 1) = path \o "."}

PermutationReported(prevArray, nextArray, path, d) ==
  IsPermutation(prevArray, nextArray) =>
    /\ PathsUnder(d.added, path) = {}
    /\ PathsUnder(d.removed, path) = {}
    /\ Cardinality(PathsUnder(d.changed, path)) =
         Cardinality(MovedIndices(prevArray, nextArray))

RECURSIVE ArraysByIndex(_, _, _, _, _)
ArraysByIndex(definition, previous, next, path, d) ==
  \A i \in 1..Len(definition) :
    LET f == definition[i].f
        p == DottedPath(path, definition[i].k)
        before == Get(previous, definition[i].k)
        after == Get(next, definition[i].k)
    IN IF f.kind = "array" /\ before.t = "array" /\ after.t = "array"
         THEN /\ ItemsByIndex(before.a, after.a, p, d)
              /\ PermutationReported(before.a, after.a, p, d)
       ELSE IF f.kind = "object" /\ before.t = "object" /\ after.t = "object"
         THEN ArraysByIndex(f.shape, before, after, p, d)
       ELSE TRUE

\* C11: for an array field present in both inputs, element i of previous is
\* compared only with element i of next and the entry is placed at path
\* <field>.<i>: added when only next has it, removed when only previous has
\* it, changed when both exist and are not deep-equal, nothing otherwise; a
\* permutation of distinct elements gives one changed entry per moved index
\* and no added or removed entry.
C11_ArrayDiffByIndex ==
  op = "diff" =>
    ArraysByIndex(schema.definition, args.previous, args.next, "", result)

\* a list of two distinct elements has been compared with its reversal
C11_Witness ==
  /\ op = "diff"
  /\ \E i \in 1..Len(schema.definition) :
       LET before == Get(args.previous, schema.definition[i].k)
           after == Get(args.next, schema.definition[i].k)
       IN /\ schema.definition[i].f.kind = "array"
          /\ before.t = "array" /\ after.t = "array"
          /\ Len(before.a) = 2 /\ Len(after.a) = 2
          /\ before.a[1] # before.a[2]
          /\ after.a = <<before.a[2], before.a[1]>>
          /\ Len(result.changed) = 2

RECURSIVE Merged(_, _, _, _)
Merged(definition, base, updates, merged) ==
  \A i \in 1..Len(definition) :
    LET f == definition[i].f
        b == Get(base, definition[i].k)
        u == Get(updates, definition[i].k)
        r == Get(merged, definition[i].k)
    IN IF u = Undefined THEN r = b
       ELSE IF f.kind = "array" THEN TRUE
       ELSE IF f.kind = "object" THEN r.t = "object" /\ Merged(f.shape, b, u, r)
       ELSE r = u

\* C12: in the result of merge a field whose update value is absent holds
\* the base value, a present update of a non-array, non-object kind replaces
\* the base value, and an object field is merged key by key with the same
\* rules, nested keys missing from the update taking their value from base.
C12_MergeFields ==
  op = "merge" => Merged(schema.definition, args.base, args.updates, result)

\* an object field was updated with one nested key changed and another left
\* out that base holds
C12_Witness ==
  /\ op = "merge"
  /\ \E i \in 1..Len(schema.definition) :
       LET f == schema.definition[i].f
           b == Get(args.base, schema.definition[i].k)
           u == Get(args.updates, schema.definition[i].k)
       IN /\ f.kind = "object" /\ b.t = "object" /\ u.t = "object"
          /\ \E j \in DeclaredKeys(f.shape) : Get(u, j) = Undefined /\ Get(b, j) # Undefined
          /\ \E j \in DeclaredKeys(f.shape) : Get(u, j) # Undefined /\ Get(u, j) # Get(b, j)

Appends(options) == Has(options, "arrayStrategy") /\ options.arrayStrategy = "append"

RECURSIVE ArraysMerged(_, _, _, _, _)
ArraysMerged(definition, base, updates, merged, options) ==
  \A i \in 1..Len(definition) :
    LET f == definition[i].f
        b == Get(base, definition[i].k)
        u == Get(updates, definition[i].k)
        r == Get(merged, definition[i].k)
    IN IF f.kind = "array" /\ b.t = "array" /\ u.t = "array"
         THEN /\ r.t = "array"
              /\ IF Appends(options)
                   THEN /\ Len(r.a) = Len(b.a) + Len(u.a)
                        /\ SubSeq(r.a, 1, Len(b.a)) = b.a
                        /\ SubSeq(r.a, Len(b.a) + 1, Len(r.a)) = u.a
                 ELSE r.a = u.a
       ELSE IF f.kind = "object" /\ u.t = "object"
         THEN ArraysMerged(f.shape, b, u, r, options)
       ELSE TRUE

\* C13: for an array field where base and update are both arrays, merge
\* returns the update's elements under the default strategy, and under
\* arrayStrategy append the base elements followed by the update elements,
\* each in its own order.
C13_MergeArrays ==
  op = "merge" =>
    ArraysMerged(schema.definition, args.base, args.updates, result, args.options)

\* two non-empty lists that differ have been appended
C13_Witness ==
  /\ op = "merge"
  /\ Appends(args.options)
  /\ \E i \in 1..Len(schema.definition) :
       LET b == Get(args.base, schema.definition[i].k)
           u == Get(args.updates, schema.definition[i].k)
       IN /\ schema.definition[i].f.kind = "array"
          /\ b.t = "array" /\ u.t = "array"
          /\ Len(b.a) > 0 /\ Len(u.a) > 0 /\ b.a # u.a

\* the data handed to a transform operation satisfies the schema
OnDataInstance == args.data \notin Schemas[SchemaIndex(schema)].malformed

\* the present leaves of data, each with its dot-joined path, its field and
\* its value, at the root, inside object fields and inside array items
RECURSIVE Leaves(_, _, _)
Leaves(definition, data, path) ==
  UNION {
    LET f == definition[i].f
        v == Get(data, definition[i].k)
        p == DottedPath(path, definition[i].k)
    IN IF Absent(v) THEN {}
       ELSE IF f.kind = "object"
         THEN (IF v.t = "object" THEN Leaves(f.shape, v, p) ELSE {})
       ELSE IF f.kind = "array"
         THEN (IF v.t = "array"
                 THEN UNION {Leaves(f.itemDefinition, v.a[j], p \o "." \o ToString(j - 1))
                               : j \in 1..Len(v.a)}
               ELSE {})
       ELSE {[path |-> p, field |-> f, value |-> v]}
    : i \in 1..Len(definition)}

SearchedKinds == {"text", "markdown", "enum", "entity"}

\* the leaf's text contains the query, letter case set aside unless asked for
Matches(leaf, query, caseSensitive) ==
  /\ leaf.field.kind \in SearchedKinds
  /\ leaf.value.t = "string"
  /\ IF caseSensitive THEN includes(leaf.value.s, query)
     ELSE includes(toLowerCase(leaf.value.s), toLowerCase(query))

HitsAsStated(hits, leaves, query, caseSensitive) ==
  /\ \A l \in leaves :
       Len(SelectSeq(hits, LAMBDA h : h.path = l.path)) =
         (IF Matches(l, query, caseSensitive) THEN 1 ELSE 0)
  /\ \A i \in 1..Len(hits) :
       \E l \in leaves : l.path = hits[i].path /\ l.value = hits[i].value

\* a search without limit over data that satisfies the schema
PlainSearch ==
  /\ op = "search"
  /\ OnDataInstance
  /\ ~Has(args.options, "limit")
  /\ ~(Has(args.options, "matchMarkdown") /\ ~args.options.matchMarkdown)

\* C14 as stated: for every query, search returns a hit for a leaf exactly
\* when its kind is text, markdown, enum or entity, its value is present and
\* contains the query, case-insensitively by default and case-sensitively
\* under caseSensitive; leaves inside array items and object fields are
\* reported with their dot-joined path.
C14_SearchHitsAnyQuery ==
  PlainSearch =>
    HitsAsStated(result, Leaves(schema.definition, args.data, ""), args.query,
                 CaseSensitive(args.options))

\* C14: for a query that holds a character other than white space, search
\* returns a hit for a leaf exactly when its kind is text, markdown, enum or
\* entity, its value is present and contains the query, case-insensitively
\* by default and case-sensitively under caseSensitive, at the leaf's
\* dot-joined path; a query of white space only returns no hit.
C14_SearchHits ==
  PlainSearch =>
    IF TrimsToEmpty(args.query) THEN result = <<>>
    ELSE HitsAsStated(result, Leaves(schema.definition, args.data, ""), args.query,
                      CaseSensitive(args.options))

\* a default search has hit a leaf inside an array item whose text holds the
\* query in another letter case, and passed over another string leaf
C14_Witness ==
  /\ PlainSearch
  /\ ~CaseSensitive(args.options)
  /\ \E i \in 1..Len(result) :
       /\ result[i].path \notin DeclaredKeys(schema.definition)
       /\ ~includes(result[i].value.s, args.query)
  /\ \E l \in Leaves(schema.definition, args.data, "") :
       /\ l.field.kind \in SearchedKinds
       /\ \A i \in 1..Len(result) : result[i].path # l.path

\* C15: for every data instance, query and limit L given in the options (any
\* non-negative integer, 0 included) search returns at most L results.
C15_SearchLimit ==
  (op = "search" /\ OnDataInstance /\ Has(args.options, "limit")) =>
    Len(result) <= args.options.limit

RECURSIVE Concat(_, _)
Concat(seqs, i) == IF i > Len(seqs) THEN <<>> ELSE seqs[i] \o Concat(seqs, i + 1)

\* the records of the present entity leaves in document order: fields in
\* declaration order, array items by ascending index; every entity type
\* when all is set, else the one type
RECURSIVE EntityRecords(_, _, _, _, _)
EntityRecords(definition, data, path, all, type) ==
  Concat([i \in 1..Len(definition) |->
    LET f == definition[i].f
        v == Get(data, definition[i].k)
        p == DottedPath(path, definition[i].k)
    IN IF Absent(v) THEN <<>>
       ELSE IF f.kind = "entity"
         THEN (IF all \/ f.entityType = type
                 THEN <<[path |-> p, value |-> v.s, type |-> f.entityType]>>
               ELSE <<>>)
       ELSE IF f.kind = "object" THEN EntityRecords(f.shape, v, p, all, type)
       ELSE IF f.kind = "array"
         THEN Concat([j \in 1..Len(v.a) |->
                EntityRecords(f.itemDefinition, v.a[j], p \o "." \o ToString(j - 1),
                              all, type)], 1)
       ELSE <<>>], 1)

EntitiesOnData == op = "getEntities" /\ OnDataInstance

\* C16 as stated: getEntities returns one record {path, value, type} for
\* every present entity leaf, only those of the given type whenever a type is
\* given, in document order, and no other record.
C16_EntitiesAnyType ==
  EntitiesOnData =>
    result = EntityRecords(schema.definition, args.data, "", args.type = Undefined,
                           IF args.type = Undefined THEN "" ELSE args.type.s)

\* C16: getEntities returns one record {path, value, type} for every present
\* entity leaf, at the root, inside object fields and inside array items,
\* only those of the given type when a non-empty type is given and all of
\* them when the type is left out or is the empty string, in document order,
\* and no other record.
C16_Entities ==
  EntitiesOnData =>
    result = EntityRecords(schema.definition, args.data, "",
                           args.type \in {Undefined, Str("")},
                           IF args.type = Undefined THEN "" ELSE args.type.s)

\* entities of one type were asked for in data that holds, at the root and in
\* two array items, entities of that type and one of another
C16_Witness ==
  /\ EntitiesOnData
  /\ args.type = Str("person")
  /\ Len(result) = 3
  /\ \E l \in Leaves(schema.definition, args.data, "") :
       l.field.kind = "entity" /\ l.field.entityType # "person"

\* a present value whose type is not the one its field kind expects
Mistyped(f, v) ==
  /\ ~Absent(v)
  /\ CASE f.kind \in SearchedKinds -> v.t # "string"
       [] f.kind = "number" -> v.t # "number"
       [] f.kind = "boolean" -> v.t # "boolean"
       [] f.kind = "date" -> v.t \notin {"date", "string", "number"}
       [] f.kind = "array" -> v.t # "array"
       [] f.kind = "object" -> v.t # "object"

\* the dot-joined paths of the mistyped fields and array items of data
RECURSIVE MistypedPaths(_, _, _)
MistypedPaths(definition, data, path) ==
  UNION {
    LET f == definition[i].f
        v == Get(data, definition[i].k)
        p == DottedPath(path, definition[i].k)
    IN IF Absent(v) THEN {}
       ELSE IF Mistyped(f, v) THEN {p}
       ELSE IF f.kind = "object" THEN MistypedPaths(f.shape, v, p)
       ELSE IF f.kind = "array"
         THEN UNION {IF v.a[j].t = "object"
                       THEN MistypedPaths(f.itemDefinition, v.a[j],
                                          p \o "." \o ToString(j - 1))
                       ELSE {p \o "." \o ToString(j - 1)} : j \in 1..Len(v.a)}
       ELSE {}
    : i \in 1..Len(definition)}

AtOrBelow(p, path) ==
  \/ p = path
  \/ Len(p) > Len(path) /\ SubSeq(p, 1, Len(path) + 1) = path \o "."

\* no entry of the list lies at or below a mistyped field of data
NothingFor(entries, data) ==
  \A i \in 1..Len(entries) :
    \A m \in MistypedPaths(schema.definition, data, "") : ~AtOrBelow(entries[i].path, m)

\* no entry of the list lies strictly below a mistyped field of data
NothingNestedFor(entries, data) ==
  \A i \in 1..Len(entries) :
    \A m \in MistypedPaths(schema.definition, data, "") :
      entries[i].path # m => ~AtOrBelow(entries[i].path, m)

\* C17: on an object whose field values are missing or of the wrong type,
\* search, getEntities and getMarkdownFields return a list with no hit or
\* record for a mistyped field, diff returns its three lists with no entry
\* nested below a field mistyped on the side the entry is taken from, and
\* merge returns an object: none of them throws.
C17_MalformedData ==
  /\ (op \in {"search", "getEntities", "getMarkdownFields"} /\ ~OnDataInstance) =>
       /\ DOMAIN result = 1..Len(result)
       /\ NothingFor(result, args.data)
  /\ op = "diff" =>
       /\ DOMAIN result = {"added", "removed", "changed"}
       /\ NothingNestedFor(result.removed \o result.changed, args.previous)
       /\ NothingNestedFor(result.added \o result.changed, args.next)
  /\ op = "merge" => result.t = "object"

\* every field of a definition, with the fields of object shapes and of array items
RECURSIVE AllFields(_)
AllFields(definition) ==
  UNION {
    LET f == definition[i].f
    IN {f} \cup (IF f.kind = "object" THEN AllFields(f.shape)
                 ELSE IF f.kind = "array" THEN AllFields(f.itemDefinition)
                 ELSE {})
    : i \in 1..Len(definition)}

OptionIs(opts, name, b) == name \in DOMAIN opts /\ opts[name] = b

DefaultGiven(opts) == "default" \in DOMAIN opts /\ opts["default"] # Undefined

\* the field is constructed without required: false
RequiredNotFalse(opts) == ~OptionIs(opts, "required", FALSE)

\* the precedence as stated, for options without required: false
OptionalByPrecedence(opts) ==
  IF OptionIs(opts, "optional", TRUE) THEN TRUE
  ELSE IF OptionIs(opts, "required", TRUE) THEN FALSE
  ELSE DefaultGiven(opts)

RequiredIssueAt(key) ==
  \E j \in 1..Len(IssuesOf(result)) :
    result.issues[j].path = <<key>> /\ result.issues[j].code = "required"

\* C18: optional: true makes a field optional even with required: true;
\* otherwise required: true makes it not-optional even with a default, so a
\* missing value gives a required issue and no default; otherwise, required
\* not being set, the field is optional exactly when a non-undefined default
\* was supplied, and a field with none of these options is required. This
\* holds for every field kind, nested fields included.
C18_OptionalPrecedence ==
  /\ \A f \in AllFields(schema.definition) :
       RequiredNotFalse(f.options) => (f.optional <=> OptionalByPrecedence(f.options))
  /\ ParsedObject =>
       \A i \in 1..Len(schema.definition) :
         LET k == schema.definition[i].k
             opts == schema.definition[i].f.options
         IN (RequiredNotFalse(opts) /\ Absent(Get(args.input, k))) =>
              /\ RequiredIssueAt(k) <=> ~OptionalByPrecedence(opts)
              /\ ~OptionalByPrecedence(opts) => ~result.success

\* a parsed input that leaves out a field with optional: true and
\* required: true, and a field with required: true and a default: only the
\* second is reported
C18_Witness ==
  /\ ParsedObject
  /\ \E i, j \in 1..Len(schema.definition) :
       /\ OptionIs(schema.definition[i].f.options, "optional", TRUE)
       /\ OptionIs(schema.definition[i].f.options, "required", TRUE)
       /\ Absent(Get(args.input, schema.definition[i].k))
       /\ ~RequiredIssueAt(schema.definition[i].k)
       /\ OptionIs(schema.definition[j].f.options, "required", TRUE)
       /\ DefaultGiven(schema.definition[j].f.options)
       /\ Absent(Get(args.input, schema.definition[j].k))
       /\ RequiredIssueAt(schema.definition[j].k)

\* the field is constructed with required set, to true or to false, and
\* without optional: true
RequiredSet(opts) == "required" \in DOMAIN opts /\ ~OptionIs(opts, "optional", TRUE)

\* C19 as stated: a field with required set to true or to false and without
\* optional: true is not-optional, with or without a default, so a missing
\* value is reported with a required issue, in particular for required: false.
C19_RequiredSetNotOptional ==
  /\ \A f \in AllFields(schema.definition) : RequiredSet(f.options) => ~f.optional
  /\ ParsedObject =>
       \A i \in 1..Len(schema.definition) :
         (RequiredSet(schema.definition[i].f.options)
            /\ Absent(Get(args.input, schema.definition[i].k)))
           => RequiredIssueAt(schema.definition[i].k)

\* C19: without optional: true, required: true makes a field not-optional
\* and required: false makes it optional, in both cases with or without a
\* default: a missing value is reported with a required issue exactly when
\* required is true.
C19_RequiredFlagDecides ==
  /\ \A f \in AllFields(schema.definition) :
       RequiredSet(f.options) => (f.optional <=> OptionIs(f.options, "required", FALSE))
  /\ ParsedObject =>
       \A i \in 1..Len(schema.definition) :
         (RequiredSet(schema.definition[i].f.options)
            /\ Absent(Get(args.input, schema.definition[i].k)))
           => (RequiredIssueAt(schema.definition[i].k)
                 <=> OptionIs(schema.definition[i].f.options, "required", TRUE))

\* a parsed input that leaves out a field with required: false and no
\* default, and one with required: false and a default: neither is reported
C19_Witness ==
  /\ ParsedObject
  /\ \E i, j \in 1..Len(schema.definition) :
       /\ OptionIs(schema.definition[i].f.options, "required", FALSE)
       /\ ~DefaultGiven(schema.definition[i].f.options)
       /\ Absent(Get(args.input, schema.definition[i].k))
       /\ ~RequiredIssueAt(schema.definition[i].k)
       /\ OptionIs(schema.definition[j].f.options, "required", FALSE)
       /\ DefaultGiven(schema.definition[j].f.options)
       /\ Absent(Get(args.input, schema.definition[j].k))
       /\ ~RequiredIssueAt(schema.definition[j].k)

\* the present values given to number fields, each with its field and path,
\* at the root and inside object fields
RECURSIVE NumberSites(_, _, _)
NumberSites(definition, value, path) ==
  UNION {
    LET f == definition[i].f
        raw == Get(value, definition[i].k)
        fp == Append(path, definition[i].k)
    IN IF Absent(raw) THEN {}
       ELSE IF f.kind = "number" THEN {[f |-> f, v |-> raw, path |-> fp]}
       ELSE IF f.kind = "object" /\ raw.t = "object" THEN NumberSites(f.shape, raw, fp)
       ELSE {}
    : i \in 1..Len(definition)}

FiniteNumber(v) == v.t = "number" /\ v.sp = "finite"

BelowMin(opts, v) == FiniteNumber(v) /\ "min" \in DOMAIN opts /\ v.n < opts.min

AboveMax(opts, v) == FiniteNumber(v) /\ "max" \in DOMAIN opts /\ v.n > opts.max

\* the issue code the stated rule gives a value, "none" when it is accepted
NumberVerdict(opts, v) ==
  IF ~FiniteNumber(v) THEN "invalid_type"
  ELSE IF BelowMin(opts, v) THEN "too_small"
  ELSE IF AboveMax(opts, v) THEN "too_big"
  ELSE "none"

NumberJudged(site) ==
  IF NumberVerdict(site.f.options, site.v) = "none"
    THEN IssuesAt(IssuesOf(result), site.path) = <<>>
    ELSE /\ Len(IssuesAt(IssuesOf(result), site.path)) = 1
         /\ IssuesAt(IssuesOf(result), site.path)[1].code
              = NumberVerdict(site.f.options, site.v)

\* C20: a number field accepts exactly the finite numbers within its
\* configured inclusive bounds; NaN, either infinity and non-numbers are
\* rejected with invalid_type, a value below min with too_small, a value
\* above max with too_big, and the bounds themselves are accepted.
C20_NumberRange ==
  ParsedObject =>
    \A site \in NumberSites(schema.definition, args.input, <<>>) : NumberJudged(site)

\* the same rule for the values that are not an infinity
C20_FiniteOrNaN ==
  ParsedObject =>
    \A site \in NumberSites(schema.definition, args.input, <<>>) :
      (site.v.t = "number" => site.v.sp \in {"finite", "NaN"}) => NumberJudged(site)

\* a date field whose configured default the date routine cannot resolve
DefaultUnresolvable(f) ==
  /\ f.kind = "date"
  /\ DefaultGiven(f.options)
  /\ ~determineDate(f.options["default"], f.options).success

\* the root fields with such a default whose input value is absent
UnresolvedDefaultsDue(definition, input) ==
  {i \in 1..Len(definition) :
     /\ DefaultUnresolvable(definition[i].f)
     /\ definition[i].f.optional
     /\ Absent(Get(input, definition[i].k))}

RaisedError == IsThrown(result) /\ result.name = "Error"

\* C22: a schema whose date field has an unparseable default is constructed
\* without failure; parsing an object in which every such field is present
\* does not invoke the default and raises nothing; parsing an object in which
\* such a field is absent raises an Error instead of returning a Result.
C22_LazyDateDefault ==
  /\ "definition" \in DOMAIN schema
  /\ (op \in {"safeParse", "parse"} /\ args.input.t = "object") =>
       (RaisedError <=> UnresolvedDefaultsDue(schema.definition, args.input) # {})

\* safeParse has raised on an input that omits the field with the bad
\* default and carries a well-formed value for the other date field
C22_Witness ==
  /\ op = "safeParse"
  /\ args.input.t = "object"
  /\ \E i \in 1..Len(schema.definition) : DefaultUnresolvable(schema.definition[i].f)
  /\ UnresolvedDefaultsDue(schema.definition, args.input) # {}
  /\ \E k \in KeySet(args.input) : Get(args.input, k).t = "date"
  /\ RaisedError

\* safeParse has returned a Result for an input that carries the field with
\* the bad default
C22_PresentWitness ==
  /\ op = "safeParse"
  /\ args.input.t = "object"
  /\ \E i \in 1..Len(schema.definition) :
       /\ DefaultUnresolvable(schema.definition[i].f)
       /\ ~Absent(Get(args.input, schema.definition[i].k))
  /\ ~IsThrown(result)
  /\ result.success

\* a Result is either a success without issues or a failure with at least one
Discriminated(r) ==
  IF r.success THEN "issues" \notin DOMAIN r
  ELSE "issues" \in DOMAIN r /\ Len(r.issues) >= 1

\* the Results produced below the root while value is traversed: one per
\* present field, one per array element
RECURSIVE ResultsBelow(_, _, _)
ResultsBelow(definition, value, path) ==
  UNION {
    LET f == definition[i].f
        raw == Get(value, definition[i].k)
        fp == Append(path, definition[i].k)
    IN IF Absent(raw) THEN {}
       ELSE {FieldParse(f, raw, fp)} \cup
            (IF f.kind = "object" /\ raw.t = "object" THEN ResultsBelow(f.shape, raw, fp)
             ELSE IF f.kind = "array" /\ raw.t = "array"
               THEN UNION {
                 {parseDefinition(f.itemDefinition, raw.a[j],
                                  Append(fp, ToString(j - 1)), DefaultParseOptions)}
                   \cup (IF raw.a[j].t = "object"
                           THEN ResultsBelow(f.itemDefinition, raw.a[j],
                                             Append(fp, ToString(j - 1)))
                           ELSE {})
                 : j \in 1..Len(raw.a)}
             ELSE {})
    : i \in 1..Len(definition)}

\* nothing in the traversal of a root object gives rise to an issue
NoIssueAnywhere(definition, record, options) ==
  /\ \A r \in ResultsBelow(definition, record, <<>>) : r.success
  /\ RequiredMissing(definition, record, <<>>) = {}
  /\ options.strict => UnexpectedFieldIssues(definition, record, <<>>) = <<>>

Traversed(record) ==
  /\ \A r \in ResultsBelow(schema.definition, record, <<>>) : Discriminated(r)
  /\ result.success <=> NoIssueAnywhere(schema.definition, record, schema.options)

\* C23: a failure Result of safeParse, of parseDefinition at any depth and of
\* any field's parse carries at least one issue and a success Result carries
\* none; safeParse succeeds exactly when nothing in the traversal gave rise
\* to an issue.
C23_ResultsDiscriminated ==
  (op = "safeParse" /\ ~IsThrown(result)) =>
    /\ Discriminated(result)
    /\ Discriminated(normalizeInput(args.input))
    /\ IF normalizeInput(args.input).success /\ normalizeInput(args.input).data.t = "object"
         THEN Traversed(normalizeInput(args.input).data)
         ELSE ~result.success

\* a failed safeParse whose only issues come from inside an array element of
\* a nested level
C23_Witness ==
  /\ ParsedObject
  /\ ~result.success
  /\ \A j \in 1..Len(result.issues) : Len(result.issues[j].path) >= 3
  /\ \E r \in ResultsBelow(schema.definition, args.input, <<>>) : r.success

\* the codes of the length-bound issues an array of n elements calls for
BoundCodes(opts, n) ==
  (IF "minItems" \in DOMAIN opts /\ n < opts.minItems THEN <<"too_small">> ELSE <<>>)
    \o (IF "maxItems" \in DOMAIN opts /\ n > opts.maxItems THEN <<"too_big">> ELSE <<>>)

CodesOf(issues) == [j \in 1..Len(issues) |-> issues[j].code]

\* the Result of parsing element j of an array on its own
ElementResult(f, raw, fp, j) ==
  parseDefinition(f.itemDefinition, raw.a[j], Append(fp, ToString(j - 1)),
                  DefaultParseOptions)

RECURSIVE ElementIssues(_, _, _, _)
ElementIssues(f, raw, fp, j) ==
  IF j > Len(raw.a) THEN <<>>
  ELSE IssuesOf(ElementResult(f, raw, fp, j)) \o ElementIssues(f, raw, fp, j + 1)

\* the uniqueBy check of the array is reached: no bound issue, no element issue
UniqueCheckReached(f, raw, fp) ==
  /\ "uniqueBy" \in DOMAIN f.options
  /\ BoundCodes(f.options, Len(raw.a)) = <<>>
  /\ ElementIssues(f, raw, fp, 1) = <<>>

ArrayJudged(f, raw, fp, key) ==
  IF raw.t # "array"
    THEN /\ Len(Under(IssuesOf(result), fp)) = 1
         /\ Under(IssuesOf(result), fp)[1].path = fp
         /\ Under(IssuesOf(result), fp)[1].code = "invalid_type"
  ELSE /\ ~UniqueCheckReached(f, raw, fp) =>
            /\ CodesOf(IssuesAt(IssuesOf(result), fp))
                 = BoundCodes(f.options, Len(raw.a))
            /\ Under(IssuesOf(result), fp)
                 = IssuesAt(IssuesOf(result), fp) \o ElementIssues(f, raw, fp, 1)
       /\ result.success =>
            /\ Get(result.data, key).t = "array"
            /\ Len(Get(result.data, key).a) = Len(raw.a)
            /\ \A j \in 1..Len(raw.a) :
                 Get(result.data, key).a[j] = ElementResult(f, raw, fp, j).data

\* C24: an array field rejects a non-array with one invalid_type issue;
\* otherwise it checks minItems and maxItems inclusively against the length
\* and parses every element even when a bound is violated or an earlier
\* element failed: the bound issues sit at the array's path, followed by each
\* element's issues under the path extended by its index. On success the
\* output array has the input's length and element order.
C24_ArrayParse ==
  ParsedObject =>
    \A i \in 1..Len(schema.definition) :
      (/\ schema.definition[i].f.kind = "array"
       /\ ~Absent(Get(args.input, schema.definition[i].k)))
        => ArrayJudged(schema.definition[i].f, Get(args.input, schema.definition[i].k),
                       <<schema.definition[i].k>>, schema.definition[i].k)

\* an array over its maxItems whose first and second elements both fail:
\* the bound issue and both elements' issues are reported
C24_Witness ==
  /\ ParsedObject
  /\ \E i \in 1..Len(schema.definition) :
       LET f == schema.definition[i].f
           k == schema.definition[i].k
           raw == Get(args.input, schema.definition[i].k)
       IN /\ f.kind = "array"
          /\ raw.t = "array"
          /\ BoundCodes(f.options, Len(raw.a)) = <<"too_big">>
          /\ Under(IssuesOf(result), <<k, "0">>) # <<>>
          /\ Under(IssuesOf(result), <<k, "1">>) # <<>>
          /\ IssuesAt(IssuesOf(result), <<k>>) # <<>>

\* the value element j of a fully parsed array holds for the uniqueBy sub-field
ParsedKey(f, raw, fp, j) == Get(ElementResult(f, raw, fp, j).data, f.options.uniqueBy)

\* elements j1 < j2 hold an equal value for the uniqueBy sub-field
EqualKeys(f, raw, fp, j1, j2) ==
  /\ j1 < j2
  /\ ParsedKey(f, raw, fp, j1) # Undefined
  /\ LeafEqual(ParsedKey(f, raw, fp, j1), ParsedKey(f, raw, fp, j2))

Duplicates(f, raw, fp) ==
  {j2 \in 1..Len(raw.a) : \E j1 \in 1..Len(raw.a) : EqualKeys(f, raw, fp, j1, j2)}

FirstOf(S) == CHOOSE j \in S : \A other \in S : j <= other

UniqueJudged(f, raw, fp) ==
  IF Duplicates(f, raw, fp) = {}
    THEN Under(IssuesOf(result), fp) = <<>>
    ELSE /\ Len(Under(IssuesOf(result), fp)) = 1
         /\ Under(IssuesOf(result), fp)[1].path = fp
         /\ Under(IssuesOf(result), fp)[1].code = "invalid_format"
         /\ Under(IssuesOf(result), fp)[1].received
              = ParsedKey(f, raw, fp, FirstOf(Duplicates(f, raw, fp)))

\* the root array fields with uniqueBy whose elements all parsed
UniqueSites ==
  {i \in 1..Len(schema.definition) :
     /\ schema.definition[i].f.kind = "array"
     /\ Get(args.input, schema.definition[i].k).t = "array"
     /\ UniqueCheckReached(schema.definition[i].f, Get(args.input, schema.definition[i].k),
                           <<schema.definition[i].k>>)}

\* the uniqueBy sub-field of the array field is of a date kind
KeyedByDate(f) ==
  \E n \in 1..Len(f.itemDefinition) :
    f.itemDefinition[n].k = f.options.uniqueBy /\ f.itemDefinition[n].f.kind = "date"

\* C25: when all elements of an array with uniqueBy parse, the array is
\* rejected exactly when two parsed elements hold an equal value for the
\* sub-field, with one issue at the array's path for the first duplicate in
\* index order however many there are; values filled in by defaults count.
C25_UniqueBy ==
  ParsedObject =>
    \A i \in UniqueSites :
      UniqueJudged(schema.definition[i].f, Get(args.input, schema.definition[i].k),
                   <<schema.definition[i].k>>)

\* the same rule for the arrays whose uniqueBy sub-field is not a date
C25_UniqueByText ==
  ParsedObject =>
    \A i \in UniqueSites :
      ~KeyedByDate(schema.definition[i].f) =>
        UniqueJudged(schema.definition[i].f, Get(args.input, schema.definition[i].k),
                     <<schema.definition[i].k>>)

\* an array with two duplicates, one of them through a default, is rejected
C25_TextDuplicates ==
  /\ ParsedObject
  /\ \E i \in UniqueSites :
       /\ ~KeyedByDate(schema.definition[i].f)
       /\ Cardinality(Duplicates(schema.definition[i].f,
                                 Get(args.input, schema.definition[i].k),
                                 <<schema.definition[i].k>>)) >= 2
       /\ Len(IssuesAt(IssuesOf(result), <<schema.definition[i].k>>)) = 1

Composite(f) == f.kind \in {"object", "array"}

\* C26: an object or array field constructed with a non-undefined default is
\* optional, and when its input value is absent the parse output holds that
\* key with the configured default.
C26_CompositeDefault ==
  /\ \A f \in AllFields(schema.definition) :
       (Composite(f) /\ DefaultGiven(f.options) /\ "required" \notin DOMAIN f.options)
         => f.optional
  /\ (ParsedObject /\ result.success) =>
       \A i \in 1..Len(schema.definition) :
         (/\ Composite(schema.definition[i].f)
          /\ DefaultGiven(schema.definition[i].f.options)
          /\ schema.definition[i].f.optional
          /\ Absent(Get(args.input, schema.definition[i].k)))
           => /\ HasOwn(result.data, schema.definition[i].k)
              /\ Get(result.data, schema.definition[i].k)
                   = schema.definition[i].f.options["default"]

\* the optionality half of the statement on its own
C26_CompositeOptional ==
  \A f \in AllFields(schema.definition) :
    (Composite(f) /\ DefaultGiven(f.options) /\ "required" \notin DOMAIN f.options)
      => f.optional

\* the paths of the undeclared keys found inside object field values and
\* array items, at any depth below the root
RECURSIVE NestedUnknownPaths(_, _, _)
NestedUnknownPaths(definition, value, path) ==
  UNION {
    LET f == definition[i].f
        raw == Get(value, definition[i].k)
        fp == Append(path, definition[i].k)
    IN IF Absent(raw) THEN {}
       ELSE IF f.kind = "object" /\ raw.t = "object"
         THEN {Append(fp, key) : key \in KeySet(raw) \ DeclaredKeys(f.shape)}
                \cup NestedUnknownPaths(f.shape, raw, fp)
       ELSE IF f.kind = "array" /\ raw.t = "array"
         THEN UNION {
           IF raw.a[j].t = "object"
             THEN {Append(Append(fp, ToString(j - 1)), key) :
                     key \in KeySet(raw.a[j]) \ DeclaredKeys(f.itemDefinition)}
                    \cup NestedUnknownPaths(f.itemDefinition, raw.a[j],
                                            Append(fp, ToString(j - 1)))
             ELSE {}
           : j \in 1..Len(raw.a)}
       ELSE {}
    : i \in 1..Len(definition)}

\* every object below the root of the output holds declared keys only
RECURSIVE NestedKeysDeclared(_, _)
NestedKeysDeclared(definition, data) ==
  \A i \in 1..Len(definition) :
    LET f == definition[i].f
        out == Get(data, definition[i].k)
    IN IF f.kind = "object" /\ out.t = "object"
         THEN KeySet(out) \subseteq DeclaredKeys(f.shape) /\ NestedKeysDeclared(f.shape, out)
       ELSE IF f.kind = "array" /\ out.t = "array"
         THEN \A j \in 1..Len(out.a) :
                /\ KeySet(out.a[j]) \subseteq DeclaredKeys(f.itemDefinition)
                /\ NestedKeysDeclared(f.itemDefinition, out.a[j])
       ELSE TRUE

\* the same schema with strict mode off
NonStrict(h) == [h EXCEPT !.options.strict = FALSE]

\* the issues that do not sit at a key of the root
BelowRoot(issues) == SelectSeq(issues, LAMBDA x : Len(x.path) >= 2)

\* C28: strict mode is applied to the root definition only: a key that the
\* definition does not declare and that appears inside an object field's
\* value or an array item gives no issue and is dropped from the output, in
\* strict mode exactly as in non-strict mode.
C28_StrictRootOnly ==
  ParsedObject =>
    /\ \A p \in NestedUnknownPaths(schema.definition, args.input, <<>>) :
         Under(IssuesOf(result), p) = <<>>
    /\ result.success => NestedKeysDeclared(schema.definition, result.data)
    /\ BelowRoot(IssuesOf(result))
         = BelowRoot(IssuesOf(safeParse(NonStrict(schema), args.input)))
    /\ (result.success /\ schema.options.strict)
         => result = safeParse(NonStrict(schema), args.input)

\* a strict schema has accepted an input with an undeclared key inside an
\* object field's value or an array item
C28_Witness ==
  /\ ParsedObject
  /\ schema.options.strict
  /\ result.success
  /\ NestedUnknownPaths(schema.definition, args.input, <<>>) # {}

\* a diff entry with before and after exchanged
Exchanged(entry) ==
  IF "before" \in DOMAIN entry /\ "after" \in DOMAIN entry
    THEN [path |-> entry.path, before |-> entry.after, after |-> entry.before]
  ELSE IF "before" \in DOMAIN entry
    THEN [path |-> entry.path, after |-> entry.before]
  ELSE [path |-> entry.path, before |-> entry.after]

ExchangedAll(entries) == [i \in 1..Len(entries) |-> Exchanged(entries[i])]

\* the diff of the same two arguments taken in the other order
Swapped == diffSchemaData(schema, args.next, args.previous, args.aliased)

\* the pairs of array elements a diff of the two values compares, at any depth
RECURSIVE ComparedItems(_, _, _)
ComparedItems(definition, previous, next) ==
  UNION {
    LET f == definition[i].f
        before == Get(previous, definition[i].k)
        after == Get(next, definition[i].k)
    IN IF f.kind = "array" /\ before.t = "array" /\ after.t = "array"
         THEN {<<before.a[j], after.a[j]>> :
                 j \in 1..(IF Len(before.a) < Len(after.a) THEN Len(before.a)
                           ELSE Len(after.a))}
       ELSE IF f.kind = "object" /\ before.t = "object" /\ after.t = "object"
         THEN ComparedItems(f.shape, before, after)
       ELSE {}
    : i \in 1..Len(definition)}

\* C29: for data instances a and b, the added list of diff(b, a) is the
\* removed list of diff(a, b) with before and after exchanged, and the other
\* way round; the changed list of diff(b, a) is that of diff(a, b) with
\* before and after exchanged; the deep-equality that decides changed gives
\* the same answer for (x, y) and (y, x).
C29_DiffSymmetric ==
  (op = "diff" /\ DiffOnDataInstances) =>
    /\ Swapped.added = ExchangedAll(result.removed)
    /\ Swapped.removed = ExchangedAll(result.added)
    /\ Swapped.changed = ExchangedAll(result.changed)
    /\ \A pair \in ComparedItems(schema.definition, args.previous, args.next) :
         deepEqual(pair[1], pair[2], args.aliased)
           = deepEqual(pair[2], pair[1], args.aliased)

\* a diff of two data instances with a removed and a changed entry, in
\* which array elements with different keys were compared
C29_Witness ==
  /\ op = "diff"
  /\ DiffOnDataInstances
  /\ Len(result.removed) > 0
  /\ Len(result.changed) > 0
  /\ \E pair \in ComparedItems(schema.definition, args.previous, args.next) :
       KeySet(pair[1]) # KeySet(pair[2])

\* ---- C21 -------------------------------------------------------------------
\* the descriptor as defineSchema received it: the pattern's lastIndex is 0
DescriptorAsConstructed(field) ==
  IF field.kind = "text" /\ Has(field.options, "pattern")
    THEN [field EXCEPT !.options.pattern.lastIndex = 0]
    ELSE field

FieldOf(definition, key) ==
  definition[CHOOSE i \in 1..Len(definition) : definition[i].k = key].f

Flagged(field) ==
  /\ field.kind = "text"
  /\ Has(field.options, "pattern")
  /\ HasFlag(field.options.pattern, "g") \/ HasFlag(field.options.pattern, "y")

\* the result of the call just made is the result the same call gives on the
\* descriptor before any call was made
SameAsFirstCall ==
  op = "field.parse" =>
    result = FieldParse(DescriptorAsConstructed(FieldOf(schema.definition, args.key)),
                        args.value, args.path)

\* a call of a descriptor's parse leaves every descriptor of the schema as it was
FieldParseKeepsState == op' = "field.parse" => schema' = schema

\* C21: a field descriptor's parse is pure and deterministic: two parse calls
\* with the same value and path return equal results whatever parse calls
\* happened before (a text field whose pattern has the global or sticky flag
\* included), and a parse call changes no state of the descriptor, its options
\* or the schema.
C21_ParsePure == []SameAsFirstCall /\ [][FieldParseKeepsState]_vars

\* the same for the descriptors whose pattern has neither flag
C21_UnflaggedPure ==
  /\ [](~Flagged(FieldOf(schema.definition, "code")) => SameAsFirstCall)
  /\ [][~Flagged(FieldOf(schema.definition, "code")) => FieldParseKeepsState]_vars

\* the second of two equal calls answers differently
C21_SecondCallDiffers ==
  /\ op = "field.parse"
  /\ args.value = Str("a")
  /\ ~result.success
  /\ FieldParse(DescriptorAsConstructed(FieldOf(schema.definition, args.key)),
                args.value, args.path).success

\* ---- C27 -------------------------------------------------------------------
SchemaOperations ==
  {"safeParse", "parse", "diff", "merge", "search", "getEntities", "getMarkdownFields"}

\* C27: no operation mutates the schema: across a safeParse, parse, diff, merge,
\* search, getEntities or getMarkdownFields call the schema definition, every
\* field descriptor and its options stay as they were.
C27_NoMutation == [][op' \in SchemaOperations => schema' = schema]_vars

\* the operations that never hand a value to a descriptor's parse keep the schema
C27_TransformsKeepSchema ==
  [][op' \in SchemaOperations \ {"safeParse", "parse"} => schema' = schema]_vars

\* a safeParse or parse call has moved the lastIndex of the pattern
C27_PatternMoved ==
  /\ op \in {"safeParse", "parse"}
  /\ FieldOf(schema.definition, "code").options.pattern.lastIndex > 0

\* ---- C30 -------------------------------------------------------------------
\* a render has committed at least one setData or validate call
Rendered == op = "render" /\ hook.pending = 0

Consistent ==
  /\ hook.issues = IssuesToSet(safeParse(schema, hook.data))
  /\ hook.data = hook.lastSet
  /\ isValid(hook) <=> hook.issues = <<>>

\* C30: useSchemaData keeps its validation state consistent with its data:
\* after any non-empty sequence of setData(next) and validate() calls, issues
\* equals the issue list that safeParse returns for the current data (empty
\* when the data is valid), data is the value of the last setData call (or the
\* initial value if none), and isValid is true exactly when issues is empty.
C30_HookConsistent == Rendered => Consistent

\* the same when every call is followed by a render before the next call
C30_RenderBetweenCalls == (Rendered /\ hook.batch = 1) => Consistent

\* the hook reports invalid data as valid
C30_StaleIssues ==
  /\ Rendered
  /\ isValid(hook)
  /\ ~safeParse(schema, hook.data).success
====
